---- MODULE Spec2Model ----
(***************************************************************************)
(* A model of the Mython interpreter of RKGekk/yalex: the indentation-     *)
(* aware lexer (src/src/lexer.cpp), the recursive-descent parser           *)
(* (src/src/parse.cpp) and the AST evaluators with the object model        *)
(* (src/src/statement.cpp, src/src/runtime.cpp).                           *)
(*                                                                         *)
(* A run is RunMythonProgram (src/src/main.cpp): Tokenise the text, then   *)
(* ParseProgram, then execute the top-level Compound one statement at a    *)
(* time.                                                                   *)
(***************************************************************************)
EXTENDS Integers, Sequences, FiniteSets, TLC

VARIABLES
    text,                    \* the bytes behind the std::istream
    input,                   \* the stream: [pos, eof, fail]
    token_queue,             \* State::token_queue
    current_intent_nesting,  \* State::current_intent_nesting
    raw_queue,               \* token_queue as handed to Optimize
    ub,                      \* an erase/insert with invalid positions happened
    program,                 \* the operations of the top-level Compound
    ip,                      \* the operations of program executed so far
    global_closure,          \* the runtime::Closure of RunMythonProgram
    declared_classes,        \* the runtime::Class objects by name
    heap,                    \* the runtime::ClassInstance objects
    out,                     \* the bytes written to the output stream
    made,                    \* history: the instances NewInstance::Execute returned
    pc                       \* position in RunMythonProgram

lexer_vars == <<input, token_queue, current_intent_nesting, raw_queue, ub>>
runtime_vars == <<program, ip, global_closure, declared_classes, heap, out, made>>
vars == <<text, lexer_vars, runtime_vars, pc>>

(***************************************************************************)
(* Bounds of the model.                                                    *)
(***************************************************************************)
MaxIndentLen == 7
MaxWordLen == 4
MaxQuoteLen == 3

(***************************************************************************)
(* Characters.                                                             *)
(***************************************************************************)
EOFCH == "EOF"   \* std::char_traits<char>::eof()

LowerChars == {"a","b","c","d","e","f","g","h","i","j","k","l","m",
               "n","o","p","q","r","s","t","u","v","w","x","y","z"}
UpperChars == {"A","B","C","D","E","F","G","H","I","J","K","L","M",
               "N","O","P","Q","R","S","T","U","V","W","X","Y","Z"}
AlphaChars == LowerChars \cup UpperChars
DigitChars == {"0","1","2","3","4","5","6","7","8","9"}
OPERATOR_CHAR == {":", "(", ")", ",", ".", "+", "-", "*", "/", "!", ">", "<", "="}
QuoteChars == {"\"", "'"}
SpaceChars == {" "}
OtherChars == {"\n", "#", "_", "\t"}
AllChars == AlphaChars \cup DigitChars \cup OPERATOR_CHAR \cup QuoteChars
              \cup SpaceChars \cup OtherChars

INDENT_STEP == 2

IsInSpecial == AlphaChars \cup {"=", ">", "<", "!"}
IdStartChars == AlphaChars \cup {"_"}
IdChars == AlphaChars \cup DigitChars \cup {"_"}

Tok(t) == [type |-> t]
ValTok(t, v) == [type |-> t, value |-> v]

Newline == Tok("Newline")
Indent == Tok("Indent")
Dedent == Tok("Dedent")

SpecialWordOf(str) ==
    CASE str = <<"=","=">> -> "Eq"
      [] str = <<"!","=">> -> "NotEq"
      [] str = <<"<","=">> -> "LessOrEq"
      [] str = <<">","=">> -> "GreaterOrEq"
      [] str = <<"c","l","a","s","s">> -> "Class"
      [] str = <<"r","e","t","u","r","n">> -> "Return"
      [] str = <<"i","f">> -> "If"
      [] str = <<"e","l","s","e">> -> "Else"
      [] str = <<"d","e","f">> -> "Def"
      [] str = <<"p","r","i","n","t">> -> "Print"
      [] str = <<"a","n","d">> -> "And"
      [] str = <<"o","r">> -> "Or"
      [] str = <<"n","o","t">> -> "Not"
      [] str = <<"N","o","n","e">> -> "None"
      [] str = <<"T","r","u","e">> -> "True"
      [] str = <<"F","a","l","s","e">> -> "False"
      [] OTHER -> "NotSpecial"

SPECIAL_WORDS == {"Eq", "NotEq", "LessOrEq", "GreaterOrEq", "Class", "Return",
                  "If", "Else", "Def", "Print", "And", "Or", "Not", "None",
                  "True", "False"}

(***************************************************************************)
(* The stream.  s = [pos, eof, fail]; pos counts the bytes consumed.       *)
(***************************************************************************)
Good(s) == ~s.eof /\ ~s.fail

GetChar(s) ==
    IF ~Good(s) THEN [ch |-> EOFCH, s |-> [s EXCEPT !.fail = TRUE]]
    ELSE IF s.pos >= Len(text)
         THEN [ch |-> EOFCH, s |-> [s EXCEPT !.eof = TRUE, !.fail = TRUE]]
         ELSE [ch |-> text[s.pos + 1], s |-> [s EXCEPT !.pos = s.pos + 1]]

PeekChar(s) ==
    IF ~Good(s) THEN [ch |-> EOFCH, s |-> [s EXCEPT !.fail = TRUE]]
    ELSE IF s.pos >= Len(text)
         THEN [ch |-> EOFCH, s |-> [s EXCEPT !.eof = TRUE]]
         ELSE [ch |-> text[s.pos + 1], s |-> s]

RECURSIVE RunLen(_, _)
\* the number of bytes from position p on that belong to the set fn
RunLen(p, fn) ==
    IF p < Len(text) /\ text[p + 1] \in fn THEN 1 + RunLen(p + 1, fn) ELSE 0

\* ReadWhile and SaveCharWhile: the count, the bytes read and the stream after
SaveCharWhile(s, fn) ==
    IF s.fail THEN [ct |-> 0, str |-> <<>>, s |-> s]
    ELSE IF s.eof THEN [ct |-> 0, str |-> <<>>, s |-> [s EXCEPT !.fail = TRUE]]
    ELSE LET n == RunLen(s.pos, fn)
             str == SubSeq(text, s.pos + 1, s.pos + n)
         IN IF s.pos + n >= Len(text)
            THEN [ct |-> n, str |-> str,
                  s |-> [pos |-> Len(text), eof |-> TRUE, fail |-> TRUE]]
            ELSE [ct |-> n, str |-> str, s |-> [s EXCEPT !.pos = s.pos + n]]

ReadWhile(s, fn) == SaveCharWhile(s, fn)

RECURSIVE Repeat(_, _)
Repeat(n, tok) == IF n <= 0 THEN <<>> ELSE <<tok>> \o Repeat(n - 1, tok)

INT_MAX == 2147483647
OutOfRange == 0 - 1

RECURSIVE StoI(_)
\* std::stoi of a run of decimal digits
DigitVal(ch) ==
    CASE ch = "0" -> 0 [] ch = "1" -> 1 [] ch = "2" -> 2 [] ch = "3" -> 3
      [] ch = "4" -> 4 [] ch = "5" -> 5 [] ch = "6" -> 6 [] ch = "7" -> 7
      [] ch = "8" -> 8 [] ch = "9" -> 9
\* OutOfRange when the value exceeds INT_MAX, where std::stoi throws
\* std::out_of_range
StoI(str) ==
    IF str = <<>> THEN 0
    ELSE LET high == StoI(SubSeq(str, 1, Len(str) - 1))
         IN IF high = OutOfRange \/ high > (INT_MAX - DigitVal(str[Len(str)])) \div 10
            THEN OutOfRange
            ELSE high * 10 + DigitVal(str[Len(str)])

(***************************************************************************)
(* The steps of the raw pass.  L = [s, q]: the stream and the token queue. *)
(***************************************************************************)
SkipSpaces(L) == [L EXCEPT !.s = ReadWhile(L.s, SpaceChars).s]

SkipComments(L) ==
    LET pk == PeekChar(L.s)
    IN IF pk.ch = "#"
       THEN [hit |-> TRUE,
             L |-> [L EXCEPT !.s = ReadWhile(GetChar(pk.s).s, AllChars \ {"\n"}).s]]
       ELSE [hit |-> FALSE, L |-> [L EXCEPT !.s = pk.s]]

ProcessNewLine(L) ==
    LET pk == PeekChar(L.s)
    IN IF pk.ch = "\n"
       THEN [hit |-> TRUE, L |-> [s |-> GetChar(pk.s).s, q |-> Append(L.q, Newline)]]
       ELSE [hit |-> FALSE, L |-> [L EXCEPT !.s = pk.s]]

ProcessStringLiteral(L) ==
    LET pk == PeekChar(L.s)
    IN IF pk.ch \in QuoteChars
       THEN LET g == GetChar(pk.s)
                r == SaveCharWhile(g.s, AllChars \ {g.ch})
            IN [hit |-> TRUE,
                L |-> [s |-> GetChar(r.s).s, q |-> Append(L.q, ValTok("String", r.str))]]
       ELSE [hit |-> FALSE, L |-> [L EXCEPT !.s = pk.s]]

ProcessIntLiteral(L) ==
    LET pk == PeekChar(L.s)
    IN IF pk.ch \in DigitChars
       THEN LET r == SaveCharWhile(pk.s, DigitChars)
            IN IF StoI(r.str) = OutOfRange
               THEN [hit |-> FALSE, L |-> [L EXCEPT !.s = r.s], err |-> "out_of_range"]
               ELSE [hit |-> TRUE, err |-> "none",
                     L |-> [s |-> r.s, q |-> Append(L.q, ValTok("Number", StoI(r.str)))]]
       ELSE [hit |-> FALSE, L |-> [L EXCEPT !.s = pk.s], err |-> "none"]

ProcessOperator(L) ==
    LET pk == PeekChar(L.s)
    IN IF pk.ch \in OPERATOR_CHAR
       THEN [hit |-> TRUE,
             L |-> [s |-> GetChar(pk.s).s, q |-> Append(L.q, ValTok("Char", pk.ch))]]
       ELSE [hit |-> FALSE, L |-> [L EXCEPT !.s = pk.s]]

ProcessSpecialWords(L) ==
    LET pk == PeekChar(L.s)
    IN IF pk.ch \in IsInSpecial
       THEN LET r == SaveCharWhile(pk.s, IsInSpecial)
                w == SpecialWordOf(r.str)
            IN IF w \in SPECIAL_WORDS
               THEN [hit |-> TRUE, L |-> [s |-> r.s, q |-> Append(L.q, Tok(w))]]
               ELSE \* clear() at eof, then every byte is put back
                    [hit |-> FALSE,
                     L |-> [L EXCEPT !.s = [pos |-> r.s.pos - r.ct,
                                            eof |-> FALSE, fail |-> FALSE]]]
       ELSE [hit |-> FALSE, L |-> [L EXCEPT !.s = pk.s]]

ProcessId(L) ==
    LET pk == PeekChar(L.s)
    IN IF pk.ch \in IdStartChars
       THEN LET r == SaveCharWhile(pk.s, IdChars)
            IN [hit |-> TRUE, L |-> [s |-> r.s, q |-> Append(L.q, ValTok("Id", r.str))]]
       ELSE [hit |-> FALSE, L |-> [L EXCEPT !.s = pk.s]]

\* a Process step followed by SkipSpaces when it produced a token
ThenSkip(r) == IF r.hit THEN SkipSpaces(r.L) ELSE r.L

\* one iteration of the inner loop of Tokenise: [L, brk, err]; err names the
\* exception that ended it, "none" when it ran to its end
LineBodyIteration(L) ==
    LET c == SkipComments(L)
    IN IF c.hit THEN [L |-> c.L, brk |-> FALSE, err |-> "none"]
       ELSE LET n == ProcessNewLine(c.L)
            IN IF n.hit THEN [L |-> n.L, brk |-> TRUE, err |-> "none"]
               ELSE LET a == ThenSkip(ProcessStringLiteral(n.L))
                        i == ProcessIntLiteral(a)
                        b == ThenSkip(i)
                        w == ProcessSpecialWords(b)
                    IN IF i.err # "none" THEN [L |-> i.L, brk |-> FALSE, err |-> i.err]
                       ELSE IF w.hit
                       THEN [L |-> SkipSpaces(w.L), brk |-> FALSE, err |-> "none"]
                       ELSE LET o == ThenSkip(ProcessOperator(w.L))
                                d == ThenSkip(ProcessId(o))
                            IN [L |-> d, brk |-> FALSE, err |-> "none"]

(***************************************************************************)
(* Normalization.  Positions are 0-based as in the code; an erase or       *)
(* insert is valid when 0 <= from <= to <= size.                           *)
(***************************************************************************)
IsNewline(t) == t.type = "Newline"

ValidRange(q, from, to) == 0 <= from /\ from <= to /\ to <= Len(q)

Erase(q, from, to) == SubSeq(q, 1, from) \o SubSeq(q, to + 1, Len(q))

Insert(q, from, n, tok) ==
    SubSeq(q, 1, from) \o Repeat(n, tok) \o SubSeq(q, from + 1, Len(q))

RECURSIVE FirstNotNewline(_, _)
\* 0-based index of the first token from i on that is no Newline, or Len(q)
FirstNotNewline(q, i) ==
    IF i < Len(q) /\ IsNewline(q[i + 1]) THEN FirstNotNewline(q, i + 1) ELSE i

OptimizeStartCR(q) ==
    LET i == FirstNotNewline(q, 0)
    IN IF Len(q) = 0 THEN q
       ELSE IF i = Len(q) THEN <<>>
       ELSE IF i > 0 THEN Erase(q, 0, i)
       ELSE q

RECURSIVE LastNotNewline(_, _)
\* 0-based index of the last token up to i that is no Newline, or -1
LastNotNewline(q, i) ==
    IF i >= 0 /\ IsNewline(q[i + 1]) THEN LastNotNewline(q, i - 1) ELSE i

OptimizeEndCR(q) ==
    LET max_idx == Len(q) - 1
        i == LastNotNewline(q, max_idx)
    IN IF i >= 0 /\ i # max_idx THEN Erase(q, i + 1, Len(q)) ELSE q

RECURSIVE CRPairs(_, _, _)
\* the (last_cr, i) pairs OptimizeCRDoubles collects from index i on;
\* last_cr = -1 stands for the initial size_t(-1), whose successor is 0
CRPairs(q, i, last_cr) ==
    IF i >= Len(q) THEN <<>>
    ELSE IF IsNewline(q[i + 1])
         THEN (IF last_cr + 1 = i THEN <<[start |-> last_cr, end |-> i]>> ELSE <<>>)
                \o CRPairs(q, i + 1, i)
         ELSE CRPairs(q, i + 1, last_cr)

RECURSIVE EraseReversed(_, _, _)
\* the erases of to_remove[1..k], last pair first: [q, ub]
EraseReversed(q, to_remove, k) ==
    IF k = 0 THEN [q |-> q, ub |-> FALSE]
    ELSE LET r == to_remove[k]
         IN IF ~ValidRange(q, r.start, r.end) THEN [q |-> q, ub |-> TRUE]
            ELSE EraseReversed(Erase(q, r.start, r.end), to_remove, k - 1)

OptimizeCRDoubles(q) ==
    LET to_remove == CRPairs(q, 0, -1)
    IN EraseReversed(q, to_remove, Len(to_remove))

\* the erase and insert of one branch of OptimizeIntents at index i:
\* cut_to_pos = cut_from_pos + (i - cut_from_pos) is i, also when the
\* size_t subtraction wraps around
CutAndInsert(q, last_not_intent_pos, i, intent_diff, tok) ==
    LET cut_from_pos == last_not_intent_pos + 2
        cut_range == i - cut_from_pos
        cut_to_pos == cut_from_pos + cut_range
    IN IF ~ValidRange(q, cut_from_pos, cut_to_pos)
       THEN [q |-> q, ub |-> TRUE, from |-> cut_from_pos, cut_range |-> cut_range]
       ELSE [q |-> Insert(Erase(q, cut_from_pos, cut_to_pos), cut_from_pos, intent_diff, tok),
             ub |-> FALSE, from |-> cut_from_pos, cut_range |-> cut_range]

\* one iteration of the for loop of OptimizeIntents;
\* st = [q, i, sz, max_idx, last_not_intent_pos, intent_ct, detent_ct, ub, from]
IntentsStep(st) ==
    LET currnt_token == st.q[st.i + 1]
    IN IF currnt_token.type = "Indent"
       THEN [st EXCEPT !.i = st.i + 1, !.intent_ct = st.intent_ct + 1]
       ELSE IF currnt_token.type = "Dedent"
       THEN [st EXCEPT !.i = st.i + 1, !.detent_ct = st.detent_ct + 1]
       ELSE IF currnt_token.type = "Newline"
       THEN [st EXCEPT !.i = st.i + 1]
       ELSE IF st.intent_ct = st.detent_ct /\ st.intent_ct = 0
       THEN [st EXCEPT !.i = st.i + 1, !.last_not_intent_pos = st.i]
       ELSE LET diff == IF st.intent_ct > st.detent_ct
                        THEN st.intent_ct - st.detent_ct
                        ELSE st.detent_ct - st.intent_ct
                tok == IF st.intent_ct > st.detent_ct THEN Indent ELSE Dedent
                c == CutAndInsert(st.q, st.last_not_intent_pos, st.i, diff, tok)
            IN IF c.ub THEN [st EXCEPT !.ub = TRUE, !.from = c.from]
               ELSE [st EXCEPT !.q = c.q, !.i = st.i + 1,
                               !.sz = st.sz - c.cut_range,
                               !.max_idx = st.max_idx - c.cut_range,
                               !.last_not_intent_pos = st.i,
                               !.intent_ct = 0, !.detent_ct = 0]

RECURSIVE IntentsLoop(_)
\* the for loop of OptimizeIntents: the state when it ends
IntentsLoop(st) ==
    IF st.ub \/ st.i >= st.sz THEN st ELSE IntentsLoop(IntentsStep(st))

\* the erase that ends OptimizeIntents
IntentsTail(st) ==
    IF st.ub THEN [q |-> st.q, ub |-> TRUE, from |-> st.from]
    ELSE IF st.last_not_intent_pos # st.max_idx
    THEN IF ValidRange(st.q, st.last_not_intent_pos + 1, st.max_idx + 1)
         THEN [q |-> Erase(st.q, st.last_not_intent_pos + 1, st.max_idx + 1),
               ub |-> FALSE, from |-> 0]
         ELSE [q |-> st.q, ub |-> TRUE, from |-> st.last_not_intent_pos + 1]
    ELSE [q |-> st.q, ub |-> FALSE, from |-> 0]

OptimizeIntents(q) ==
    IF Len(q) = 0 THEN [q |-> q, ub |-> FALSE, from |-> 0]
    ELSE IntentsTail(IntentsLoop(
             [q |-> q, i |-> 0, sz |-> Len(q), max_idx |-> Len(q) - 1,
              last_not_intent_pos |-> 0, intent_ct |-> 0, detent_ct |-> 0,
              ub |-> FALSE, from |-> 0]))

\* TokenParser::Optimize: [q, ub, from]; from is the position of the
\* invalid erase when ub
Optimize(q) ==
    LET d == OptimizeCRDoubles(OptimizeEndCR(OptimizeStartCR(q)))
    IN IF d.ub THEN [q |-> d.q, ub |-> TRUE, from |-> 0]
       ELSE OptimizeIntents(d.q)

\* what the queue may hold after an erase with invalid positions, which is
\* undefined behaviour of std::deque: left as it was, or cut at the position
UBOutcomes(r) ==
    {r.q, SubSeq(r.q, 1, IF r.from < Len(r.q) THEN r.from ELSE Len(r.q))}

\* a PushIntents that counts a started indentation step as a whole one
PushIntentsRoundingUp(L, nesting) ==
    LET r == ReadWhile(L.s, SpaceChars)
        intents == (r.ct + 1) \div INDENT_STEP
        gt == intents > nesting
        intent_diff == IF gt THEN intents - nesting ELSE nesting - intents
    IN [L |-> [s |-> r.s,
               q |-> L.q \o Repeat(intent_diff, IF gt THEN Indent ELSE Dedent)],
        nesting |-> intents]

PushIntents(L, nesting) ==
    LET r == ReadWhile(L.s, SpaceChars)
        intents == r.ct \div INDENT_STEP
        gt == intents > nesting
        intent_diff == IF gt THEN intents - nesting ELSE nesting - intents
    IN [L |-> [s |-> r.s,
               q |-> L.q \o Repeat(intent_diff, IF gt THEN Indent ELSE Dedent)],
        nesting |-> intents]

(***************************************************************************)
(* The parser.  P = [idx, classes, insts]: Lexer::m_current_index, the     *)
(* class table m_declared_classes (class name -> class descriptor) and the *)
(* NewInstance nodes built so far (node id -> class name).  A parse        *)
(* function yields                                                         *)
(* [err, P, ...]; err names the exception thrown, "none" when it returned. *)
(* The tokens are those of token_queue.                                    *)
(***************************************************************************)

Eof == Tok("Eof")
EmptyMap == [x \in {} |-> x]
NoNode == [node |-> "nullptr"]
NoParent == <<>>

Put(m, k, v) == [x \in DOMAIN m \cup {k} |-> IF x = k THEN v ELSE m[x]]

\* the continuation K of a function body applied to the value v of a local
\* variable: Bind(e, LAMBDA r : body) is "auto r = e; body"
Bind(v, K(_)) == K(v)

CurrentToken(P) == IF P.idx < Len(token_queue) THEN token_queue[P.idx + 1] ELSE Eof
NextToken(P) == [P EXCEPT !.idx = P.idx + 1]
Is(tok, t) == tok.type = t
IsChar(tok, c) == tok.type = "Char" /\ tok.value = c

Thrown(kind) == [err |-> kind]
Parsed(P, node) == [err |-> "none", P |-> P, node |-> node]

\* Lexer::Expect<T>() and Lexer::Expect<T>(value): the error, or "none"
Expect(P, t) == IF Is(CurrentToken(P), t) THEN "none" ELSE "LexerError"
ExpectChar(P, c) == IF IsChar(CurrentToken(P), c) THEN "none" ELSE "LexerError"

RECURSIVE ParseStatement(_)
RECURSIVE ParseTest(_)
RECURSIVE ParseMult(_)
RECURSIVE ProgramLoop(_, _)
RECURSIVE SuiteLoop(_, _)
RECURSIVE ParamsLoop(_, _)
RECURSIVE MethodsLoop(_, _)
RECURSIVE DottedIdsLoop(_, _)
RECURSIVE ExpressionLoop(_, _)
RECURSIVE AdderLoop(_, _)
RECURSIVE TestListLoop(_, _)
RECURSIVE TestLoop(_, _)
RECURSIVE AndTestLoop(_, _)
RECURSIVE ParseNotTest(_)

ProgramLoop(P, ops) ==
    IF Is(CurrentToken(P), "Eof")
    THEN Parsed(P, [node |-> "Compound", operations |-> ops])
    ELSE IF Is(CurrentToken(P), "Newline") THEN ProgramLoop(NextToken(P), ops)
    ELSE Bind(ParseStatement(P), LAMBDA r :
            IF r.err # "none" THEN r ELSE ProgramLoop(r.P, Append(ops, r.node)))

ParseProgram(P) == ProgramLoop(P, <<>>)

SuiteLoop(P, ops) ==
    IF Is(CurrentToken(P), "Dedent")
    THEN Parsed(NextToken(P), [node |-> "Compound", operations |-> ops])
    ELSE Bind(ParseStatement(P), LAMBDA r :
            IF r.err # "none" THEN r ELSE SuiteLoop(r.P, Append(ops, r.node)))

ParseSuite(P) ==
    IF Expect(P, "Newline") # "none" THEN Thrown("LexerError")
    ELSE IF Expect(NextToken(P), "Indent") # "none" THEN Thrown("LexerError")
    ELSE SuiteLoop(NextToken(NextToken(P)), <<>>)

\* the while loop over ", Id" of ParseMethods; P is on the last parameter
ParamsLoop(P, params) ==
    Bind(NextToken(P), LAMBDA N :
       IF IsChar(CurrentToken(N), ",")
       THEN IF Expect(NextToken(N), "Id") # "none" THEN Thrown("LexerError")
            ELSE ParamsLoop(NextToken(N),
                            Append(params, CurrentToken(NextToken(N)).value))
       ELSE [err |-> "none", P |-> N, params |-> params])

MethodsLoop(P, result) ==
    IF ~Is(CurrentToken(P), "Def")
    THEN [err |-> "none", P |-> P, methods |-> result]
    ELSE Bind(NextToken(P), LAMBDA P1 :
             Bind(NextToken(P1), LAMBDA P2 :
             Bind(NextToken(P2), LAMBDA P3 :
            IF Expect(P1, "Id") # "none" \/ ExpectChar(P2, "(") # "none"
            THEN Thrown("LexerError")
            ELSE Bind(CurrentToken(P1).value, LAMBDA name :
                     Bind(IF Is(CurrentToken(P3), "Id")
                           THEN ParamsLoop(P3, <<CurrentToken(P3).value>>)
                           ELSE [err |-> "none", P |-> P3, params |-> <<>>], LAMBDA ps :
                    IF ps.err # "none" THEN Thrown(ps.err)
                    ELSE IF ExpectChar(ps.P, ")") # "none"
                            \/ ExpectChar(NextToken(ps.P), ":") # "none"
                    THEN Thrown("LexerError")
                    ELSE Bind(ParseSuite(NextToken(NextToken(ps.P))), LAMBDA b :
                            IF b.err # "none" THEN Thrown(b.err)
                            ELSE MethodsLoop(b.P,
                                   Append(result,
                                          [name |-> name, formal_params |-> ps.params,
                                           body |-> [node |-> "MethodBody",
                                                     body |-> b.node]]))))))))

ParseMethods(P) == MethodsLoop(P, <<>>)

RECURSIVE MethodMap(_, _)
\* Class::Class: m_methods[methods[i].name] = methods[i], in order
MethodMap(methods, i) ==
    IF i = 0 THEN EmptyMap
    ELSE Put(MethodMap(methods, i - 1), methods[i].name,
             [formal_params |-> methods[i].formal_params, body |-> methods[i].body])

Class(name, methods, parent) ==
    [name |-> name, methods |-> MethodMap(methods, Len(methods)), parent |-> parent]

\* an insert that replaces the descriptor a name already has
InsertOrAssignClass(table, name, descriptor) ==
    [table |-> Put(table, name, descriptor), inserted |-> TRUE]

\* m_declared_classes.insert({name, descriptor}): a name already in the table
\* keeps its descriptor
InsertClass(table, name, descriptor) ==
    IF name \in DOMAIN table THEN [table |-> table, inserted |-> FALSE]
    ELSE [table |-> Put(table, name, descriptor), inserted |-> TRUE]

\* the part of ParseClassDefinition after the optional base class
ClassDefinitionBody(P, class_name, base_class) ==
    Bind(NextToken(P), LAMBDA P1 :
        Bind(NextToken(P1), LAMBDA P2 :
        Bind(NextToken(P2), LAMBDA P3 :
       IF ExpectChar(P, ":") # "none" \/ Expect(P1, "Newline") # "none"
          \/ Expect(P2, "Indent") # "none" \/ Expect(P3, "Def") # "none"
       THEN Thrown("LexerError")
       ELSE Bind(ParseMethods(P3), LAMBDA m :
               IF m.err # "none" THEN Thrown(m.err)
               ELSE IF Expect(m.P, "Dedent") # "none" THEN Thrown("LexerError")
               ELSE Bind(InsertClass(m.P.classes, class_name,
                                     Class(class_name, m.methods, base_class)), LAMBDA ins :
                       IF ~ins.inserted THEN Thrown("ParseError")
                       ELSE Parsed([NextToken(m.P) EXCEPT !.classes = ins.table],
                                   [node |-> "ClassDefinition", cls |-> class_name]))))))

ParseClassDefinition(P) ==
    IF Expect(P, "Id") # "none" THEN Thrown("LexerError")
    ELSE Bind(CurrentToken(P).value, LAMBDA class_name :
             Bind(NextToken(P), LAMBDA P1 :
            IF IsChar(CurrentToken(P1), "(")
            THEN Bind(NextToken(P1), LAMBDA P2 :
                     Bind(NextToken(P2), LAMBDA P3 :
                    IF Expect(P2, "Id") # "none" \/ ExpectChar(P3, ")") # "none"
                    THEN Thrown("LexerError")
                    ELSE IF CurrentToken(P2).value \notin DOMAIN P.classes
                    THEN Thrown("ParseError")
                    ELSE ClassDefinitionBody(NextToken(P3), class_name,
                                             CurrentToken(P2).value)))
            ELSE ClassDefinitionBody(P1, class_name, NoParent)))

\* the while loop of ParseDottedIds; P is on the last id read
DottedIdsLoop(P, result) ==
    Bind(NextToken(P), LAMBDA N :
       IF IsChar(CurrentToken(N), ".")
       THEN IF Expect(NextToken(N), "Id") # "none" THEN Thrown("LexerError")
            ELSE DottedIdsLoop(NextToken(N),
                               Append(result, CurrentToken(NextToken(N)).value))
       ELSE [err |-> "none", P |-> N, ids |-> result])

ParseDottedIds(P) ==
    IF Expect(P, "Id") # "none" THEN Thrown("LexerError")
    ELSE DottedIdsLoop(P, <<CurrentToken(P).value>>)

VariableValue(ids) == [node |-> "VariableValue", id_seq |-> ids]
NumericConst(v) == [node |-> "NumericConst", value |-> v]

Front(q) == SubSeq(q, 1, Len(q) - 1)
Back(q) == q[Len(q)]

TestListLoop(P, result) ==
    IF IsChar(CurrentToken(P), ",")
    THEN Bind(ParseTest(NextToken(P)), LAMBDA r :
            IF r.err # "none" THEN r ELSE TestListLoop(r.P, Append(result, r.node)))
    ELSE [err |-> "none", P |-> P, args |-> result]

ParseTestList(P) ==
    Bind(ParseTest(P), LAMBDA r :
       IF r.err # "none" THEN r ELSE TestListLoop(r.P, <<r.node>>))

\* "(" [TestList] ")" with P on the token after "(": [err, P, args]
ParseArgs(P) ==
    Bind(IF ~IsChar(CurrentToken(P), ")") THEN ParseTestList(P)
             ELSE [err |-> "none", P |-> P, args |-> <<>>], LAMBDA a :
       IF a.err # "none" THEN Thrown(a.err)
       ELSE IF ExpectChar(a.P, ")") # "none" THEN Thrown("LexerError")
       ELSE [err |-> "none", P |-> NextToken(a.P), args |-> a.args])

MethodCall(object, method, args) ==
    [node |-> "MethodCall", object |-> object, method |-> method, args |-> args]

ParseAssignmentOrCall(P) ==
    Bind(ParseDottedIds(P), LAMBDA d :
       IF d.err # "none" THEN Thrown(d.err)
       ELSE Bind(Back(d.ids), LAMBDA last_name :
                Bind(Front(d.ids), LAMBDA id_list :
               IF IsChar(CurrentToken(d.P), "=")
               THEN Bind(ParseTest(NextToken(d.P)), LAMBDA r :
                       IF r.err # "none" THEN r
                       ELSE IF id_list = <<>>
                       THEN Parsed(r.P, [node |-> "Assignment", var |-> last_name,
                                         rv |-> r.node])
                       ELSE Parsed(r.P, [node |-> "FieldAssignment",
                                         object |-> VariableValue(id_list),
                                         field_name |-> last_name, rv |-> r.node]))
               ELSE IF ExpectChar(d.P, "(") # "none" THEN Thrown("LexerError")
               ELSE IF id_list = <<>> THEN Thrown("ParseError")
               ELSE Bind(ParseArgs(NextToken(d.P)), LAMBDA a :
                       IF a.err # "none" THEN Thrown(a.err)
                       ELSE Parsed(a.P, MethodCall(VariableValue(id_list), last_name,
                                                   a.args))))))

BinaryOperation(op, lhs, rhs) == [node |-> op, lhs |-> lhs, rhs |-> rhs]

AdderLoop(P, result) ==
    IF IsChar(CurrentToken(P), "*") \/ IsChar(CurrentToken(P), "/")
    THEN Bind(ParseMult(NextToken(P)), LAMBDA r :
            IF r.err # "none" THEN r
            ELSE AdderLoop(r.P,
                   BinaryOperation(IF CurrentToken(P).value = "*" THEN "Mult" ELSE "Div",
                                   result, r.node)))
    ELSE Parsed(P, result)

ParseAdder(P) ==
    Bind(ParseMult(P), LAMBDA r :
       IF r.err # "none" THEN r ELSE AdderLoop(r.P, r.node))

ExpressionLoop(P, result) ==
    IF IsChar(CurrentToken(P), "+") \/ IsChar(CurrentToken(P), "-")
    THEN Bind(ParseAdder(NextToken(P)), LAMBDA r :
            IF r.err # "none" THEN r
            ELSE ExpressionLoop(r.P,
                   BinaryOperation(IF CurrentToken(P).value = "+" THEN "Add" ELSE "Sub",
                                   result, r.node)))
    ELSE Parsed(P, result)

ParseExpression(P) ==
    Bind(ParseAdder(P), LAMBDA r :
       IF r.err # "none" THEN r ELSE ExpressionLoop(r.P, r.node))

StrName == <<"s", "t", "r">>

ParseDottedIdsInMultExpr(P) ==
    Bind(ParseDottedIds(P), LAMBDA d :
       IF d.err # "none" THEN Thrown(d.err)
       ELSE IF IsChar(CurrentToken(d.P), "(")
       THEN Bind(ParseArgs(NextToken(d.P)), LAMBDA a :
               IF a.err # "none" THEN Thrown(a.err)
               ELSE Bind(Back(d.ids), LAMBDA method_name :
                        Bind(Front(d.ids), LAMBDA names :
                       IF names # <<>>
                       THEN Parsed(a.P, MethodCall(VariableValue(names), method_name,
                                                   a.args))
                       ELSE IF method_name \in DOMAIN a.P.classes
                       THEN Parsed([a.P EXCEPT !.insts = Put(a.P.insts, a.P.idx, method_name)],
                                   [node |-> "NewInstance", id |-> a.P.idx,
                                    class |-> method_name, args |-> a.args])
                       ELSE IF method_name = StrName
                       THEN IF Len(a.args) # 1 THEN Thrown("ParseError")
                            ELSE Parsed(a.P, [node |-> "Stringify", arg |-> a.args[1]])
                       ELSE Thrown("ParseError"))))
       ELSE Parsed(d.P, VariableValue(d.ids)))

ParseMult(P) ==
    Bind(CurrentToken(P), LAMBDA tok :
       IF IsChar(tok, "(")
       THEN Bind(ParseTest(NextToken(P)), LAMBDA r :
               IF r.err # "none" THEN r
               ELSE IF ExpectChar(r.P, ")") # "none" THEN Thrown("LexerError")
               ELSE Parsed(NextToken(r.P), r.node))
       ELSE IF IsChar(tok, "-")
       THEN Bind(ParseMult(NextToken(P)), LAMBDA r :
               IF r.err # "none" THEN r
               ELSE Parsed(r.P, BinaryOperation("Mult", r.node, NumericConst(-1))))
       ELSE IF Is(tok, "Number") THEN Parsed(NextToken(P), NumericConst(tok.value))
       ELSE IF Is(tok, "String")
       THEN Parsed(NextToken(P), [node |-> "StringConst", value |-> tok.value])
       ELSE IF Is(tok, "True")
       THEN Parsed(NextToken(P), [node |-> "BoolConst", value |-> TRUE])
       ELSE IF Is(tok, "False")
       THEN Parsed(NextToken(P), [node |-> "BoolConst", value |-> FALSE])
       ELSE IF Is(tok, "None") THEN Parsed(NextToken(P), [node |-> "None"])
       ELSE ParseDottedIdsInMultExpr(P))

Comparator(tok) ==
    IF IsChar(tok, "<") THEN "Less"
    ELSE IF IsChar(tok, ">") THEN "Greater"
    ELSE IF Is(tok, "Eq") THEN "Equal"
    ELSE IF Is(tok, "NotEq") THEN "NotEqual"
    ELSE IF Is(tok, "LessOrEq") THEN "LessOrEqual"
    ELSE IF Is(tok, "GreaterOrEq") THEN "GreaterOrEqual"
    ELSE "none"

ParseComparison(P) ==
    Bind(ParseExpression(P), LAMBDA l :
       IF l.err # "none" THEN l
       ELSE Bind(Comparator(CurrentToken(l.P)), LAMBDA cmp :
               IF cmp = "none" THEN l
               ELSE Bind(ParseExpression(NextToken(l.P)), LAMBDA r :
                       IF r.err # "none" THEN r
                       ELSE Parsed(r.P, [node |-> "Comparison", cmp |-> cmp,
                                         lhs |-> l.node, rhs |-> r.node]))))

ParseNotTest(P) ==
    IF Is(CurrentToken(P), "Not")
    THEN Bind(ParseNotTest(NextToken(P)), LAMBDA r :
            IF r.err # "none" THEN r
            ELSE Parsed(r.P, [node |-> "Not", arg |-> r.node]))
    ELSE ParseComparison(P)

AndTestLoop(P, result) ==
    IF Is(CurrentToken(P), "And")
    THEN Bind(ParseNotTest(NextToken(P)), LAMBDA r :
            IF r.err # "none" THEN r
            ELSE AndTestLoop(r.P, BinaryOperation("And", result, r.node)))
    ELSE Parsed(P, result)

ParseAndTest(P) ==
    Bind(ParseNotTest(P), LAMBDA r :
       IF r.err # "none" THEN r ELSE AndTestLoop(r.P, r.node))

TestLoop(P, result) ==
    IF Is(CurrentToken(P), "Or")
    THEN Bind(ParseAndTest(NextToken(P)), LAMBDA r :
            IF r.err # "none" THEN r
            ELSE TestLoop(r.P, BinaryOperation("Or", result, r.node)))
    ELSE Parsed(P, result)

ParseTest(P) ==
    Bind(ParseAndTest(P), LAMBDA r :
       IF r.err # "none" THEN r ELSE TestLoop(r.P, r.node))

ParseCondition(P) ==
    Bind(ParseTest(NextToken(P)), LAMBDA c :
       IF c.err # "none" THEN c
       ELSE IF ExpectChar(c.P, ":") # "none" THEN Thrown("LexerError")
       ELSE Bind(ParseSuite(NextToken(c.P)), LAMBDA b :
               IF b.err # "none" THEN b
               ELSE IF Is(CurrentToken(b.P), "Else")
               THEN IF ExpectChar(NextToken(b.P), ":") # "none"
                    THEN Thrown("LexerError")
                    ELSE Bind(ParseSuite(NextToken(NextToken(b.P))), LAMBDA e :
                            IF e.err # "none" THEN e
                            ELSE Parsed(e.P, [node |-> "IfElse", condition |-> c.node,
                                              if_body |-> b.node, else_body |-> e.node]))
               ELSE Parsed(b.P, [node |-> "IfElse", condition |-> c.node,
                                 if_body |-> b.node, else_body |-> NoNode])))

ParseSimpleStatement(P) ==
    IF Is(CurrentToken(P), "Return")
    THEN Bind(ParseTest(NextToken(P)), LAMBDA r :
            IF r.err # "none" THEN r
            ELSE Parsed(r.P, [node |-> "Return", statement |-> r.node]))
    ELSE IF Is(CurrentToken(P), "Print")
    THEN IF ~Is(CurrentToken(NextToken(P)), "Newline")
         THEN Bind(ParseTestList(NextToken(P)), LAMBDA a :
                 IF a.err # "none" THEN Thrown(a.err)
                 ELSE Parsed(a.P, [node |-> "Print", args |-> a.args]))
         ELSE Parsed(NextToken(P), [node |-> "Print", args |-> <<>>])
    ELSE ParseAssignmentOrCall(P)

ParseStatement(P) ==
    IF Is(CurrentToken(P), "Class") THEN ParseClassDefinition(NextToken(P))
    ELSE IF Is(CurrentToken(P), "If") THEN ParseCondition(P)
    ELSE Bind(ParseSimpleStatement(P), LAMBDA r :
            IF r.err # "none" THEN r
            ELSE IF Is(CurrentToken(r.P), "Eof") THEN r
            ELSE IF Expect(r.P, "Newline") # "none" THEN Thrown("LexerError")
            ELSE Parsed(NextToken(r.P), r.node))

(***************************************************************************)
(* The object model.  A value is what an ObjectHolder refers to; an        *)
(* instance is named by the id of the NewInstance node that owns it.       *)
(* E = [classes, heap, out, u, made]: the Class objects by name, the       *)
(* instances [cls, fields], the bytes written to the output stream, the    *)
(* outcome the build produces for an integer division by zero, and the     *)
(* instances returned by the evaluations of NewInstance nodes so far.      *)
(***************************************************************************)
None == [k |-> "None"]
Number(v) == [k |-> "Number", v |-> v]
String(v) == [k |-> "String", v |-> v]
Bool(v) == [k |-> "Bool", v |-> v]
ClassValue(name) == [k |-> "Class", name |-> name]
ClassInstance(ref) == [k |-> "ClassInstance", ref |-> ref]

OBJECT_HOLDER_TRUE == Bool(TRUE)
OBJECT_HOLDER_FALSE == Bool(FALSE)

SELF == <<"s","e","l","f">>
INIT_METHOD == <<"_","_","i","n","i","t","_","_">>
STR_METHOD == <<"_","_","s","t","r","_","_">>
ADD_METHOD == <<"_","_","a","d","d","_","_">>
SUB_METHOD == <<"_","_","s","u","b","_","_">>
MUL_METHOD == <<"_","_","m","u","l","_","_">>
DIV_METHOD == <<"_","_","d","i","v","_","_">>
BOOL_METHOD == <<"_","_","b","o","o","l","_","_">>
EQ_METHOD == <<"_","_","e","q","_","_">>
LT_METHOD == <<"_","_","l","t","_","_">>

IsTrue(object) ==
    IF object.k = "None" THEN FALSE
    ELSE IF object.k = "String" THEN object.v # <<>>
    ELSE IF object.k = "Number" THEN object.v # 0
    ELSE IF object.k = "Bool" THEN object.v # FALSE
    ELSE FALSE

NoMethod == [found |-> FALSE]

\* a GetMethod that looks at the class's own methods only
GetOwnMethod(classes, cls, name) ==
    IF name \in DOMAIN classes[cls].methods
    THEN [found |-> TRUE, formal_params |-> classes[cls].methods[name].formal_params,
          body |-> classes[cls].methods[name].body]
    ELSE NoMethod

RECURSIVE GetMethod(_, _, _)
\* Class::GetMethod: the class's own method, else the parent's
GetMethod(classes, cls, name) ==
    IF name \in DOMAIN classes[cls].methods
    THEN [found |-> TRUE, formal_params |-> classes[cls].methods[name].formal_params,
          body |-> classes[cls].methods[name].body]
    ELSE IF classes[cls].parent # NoParent
    THEN GetMethod(classes, classes[cls].parent, name)
    ELSE NoMethod

\* ClassInstance::HasMethod
HasMethod(E, ref, method_name, argument_count) ==
    Bind(GetMethod(E.classes, E.heap[ref].cls, method_name), LAMBDA method_ptr :
       method_ptr.found /\ Len(method_ptr.formal_params) = argument_count)

RECURSIVE EmplaceParams(_, _, _, _)
EmplaceParams(closure, formal_params, actual_args, i) ==
    IF i > Len(formal_params) THEN closure
    ELSE EmplaceParams(IF formal_params[i] \in DOMAIN closure THEN closure
                       ELSE Put(closure, formal_params[i], actual_args[i]),
                       formal_params, actual_args, i + 1)

\* a local closure that also binds a name g of its own
MixinLocalClosureBindingMore(ref, formal_params, actual_args) ==
    EmplaceParams(Put(Put(EmptyMap, SELF, ClassInstance(ref)), <<"g">>, Number(0)),
                  formal_params, actual_args, 1)

\* ClassInstance::MixinLocalClosure: emplace keeps the first binding of a name
MixinLocalClosure(ref, formal_params, actual_args) ==
    EmplaceParams(Put(EmptyMap, SELF, ClassInstance(ref)), formal_params, actual_args, 1)

\* Number::Print: the decimal digits of a number
DigitChar(d) ==
    CASE d = 0 -> "0" [] d = 1 -> "1" [] d = 2 -> "2" [] d = 3 -> "3" [] d = 4 -> "4"
      [] d = 5 -> "5" [] d = 6 -> "6" [] d = 7 -> "7" [] d = 8 -> "8" [] d = 9 -> "9"
RECURSIVE Digits(_)
Digits(n) == IF n < 10 THEN <<DigitChar(n)>> ELSE Digits(n \div 10) \o <<DigitChar(n % 10)>>
NumberPrint(n) == IF n < 0 THEN <<"-">> \o Digits(0 - n) ELSE Digits(n)

\* Bool::Print
BoolPrint(b) == IF b THEN <<"T","r","u","e">> ELSE <<"F","a","l","s","e">>

\* Class::Print
ClassPrint(name) == <<"C","l","a","s","s"," ">> \o name

\* the text of "os << this"
ADDRESS == <<"@">>

\* int division rounding toward minus infinity
FloorDiv(a, b) == IF b < 0 THEN (0 - a) \div (0 - b) ELSE a \div b

\* int division, truncating toward zero
TruncDiv(a, b) ==
    LET abs(x) == IF x < 0 THEN 0 - x ELSE x
        m == abs(a) \div abs(b)
    IN IF (a < 0) = (b < 0) THEN m ELSE 0 - m

\* the byte order of the characters that occur in strings
CharOrder == <<"\t", "\n", " ", "!", "\"", "#", "'", "(", ")", "*", "+", ",", "-", ".", "/",
               "0","1","2","3","4","5","6","7","8","9", ":", "<", "=", ">", "@",
               "A","B","C","D","E","F","G","H","I","J","K","L","M",
               "N","O","P","Q","R","S","T","U","V","W","X","Y","Z", "_",
               "a","b","c","d","e","f","g","h","i","j","k","l","m",
               "n","o","p","q","r","s","t","u","v","w","x","y","z">>
CharCode(ch) == CHOOSE i \in 1..Len(CharOrder) : CharOrder[i] = ch

RECURSIVE StringLess(_, _)
\* std::less on std::string: lexicographic by byte
StringLess(a, b) ==
    IF b = <<>> THEN FALSE
    ELSE IF a = <<>> THEN TRUE
    ELSE IF CharCode(Head(a)) < CharCode(Head(b)) THEN TRUE
    ELSE IF CharCode(Head(a)) > CharCode(Head(b)) THEN FALSE
    ELSE StringLess(Tail(a), Tail(b))

\* alt_cmp of MakeComparison on two values of one primitive variant
AltCmp(embedded_cmp, a, b) ==
    IF embedded_cmp = EQ_METHOD THEN a.v = b.v
    ELSE IF a.k = "String" THEN StringLess(a.v, b.v)
    ELSE IF a.k = "Number" THEN a.v < b.v
    ELSE ~a.v /\ b.v

(***************************************************************************)
(* The evaluators.  Execute(node, closure, E) yields [sig, val, closure,   *)
(* E]: sig is "ok" when the node returned val, "return" while a            *)
(* ReturnException carrying val is in flight, "error" for a thrown         *)
(* std::exception and "crash" when the process died.                       *)
(***************************************************************************)
Res(sig, val, closure, E) == [sig |-> sig, val |-> val, closure |-> closure, E |-> E]

RECURSIVE Execute(_, _, _)
RECURSIVE ExecuteArgs(_, _, _, _, _)
RECURSIVE CompoundLoop(_, _, _, _)
RECURSIVE PrintLoop(_, _, _, _)
RECURSIVE Call(_, _, _, _)
RECURSIVE PrintObject(_, _, _)

\* evaluates args[i..] in order: [sig, val, vals, closure, E]
ExecuteArgs(args, i, closure, E, vals) ==
    IF i > Len(args)
    THEN [sig |-> "ok", val |-> None, vals |-> vals, closure |-> closure, E |-> E]
    ELSE Bind(Execute(args[i], closure, E), LAMBDA r :
            IF r.sig # "ok"
            THEN [sig |-> r.sig, val |-> r.val, vals |-> vals,
                  closure |-> r.closure, E |-> r.E]
            ELSE ExecuteArgs(args, i + 1, r.closure, r.E, Append(vals, r.val)))

\* ClassInstance::Call: [sig, val, E]
Call(ref, method_name, actual_args, E) ==
    IF HasMethod(E, ref, method_name, Len(actual_args))
    THEN Bind(GetMethod(E.classes, E.heap[ref].cls, method_name), LAMBDA method_ptr :
             Bind(MixinLocalClosure(ref, method_ptr.formal_params, actual_args),
                  LAMBDA local_closure :
             Bind(Execute(method_ptr.body, local_closure, E), LAMBDA r :
            [sig |-> r.sig, val |-> r.val, E |-> r.E])))
    ELSE [sig |-> "error", val |-> None, E |-> E]

\* Object::Print of a non-empty holder: [sig, str, E]
PrintObject(object, E, dummy) ==
    IF object.k = "Number" THEN [sig |-> "ok", str |-> NumberPrint(object.v), E |-> E]
    ELSE IF object.k = "String" THEN [sig |-> "ok", str |-> object.v, E |-> E]
    ELSE IF object.k = "Bool" THEN [sig |-> "ok", str |-> BoolPrint(object.v), E |-> E]
    ELSE IF object.k = "Class" THEN [sig |-> "ok", str |-> ClassPrint(object.name), E |-> E]
    ELSE IF HasMethod(E, object.ref, STR_METHOD, 0)
    THEN Bind(Call(object.ref, STR_METHOD, <<>>, E), LAMBDA c :
             Bind(IF dummy THEN [c.E EXCEPT !.out = E.out] ELSE c.E, LAMBDA E1 :
            IF c.sig # "ok" THEN [sig |-> c.sig, str |-> <<>>, E |-> E1]
            ELSE IF c.val.k = "None" THEN [sig |-> "crash", str |-> <<>>, E |-> E1]
            ELSE PrintObject(c.val, E1, dummy)))
    ELSE [sig |-> "ok", str |-> ADDRESS, E |-> E]

\* the loop of Print::Execute from argument i on
PrintLoop(args, i, closure, E) ==
    IF i > Len(args)
    THEN Res("ok", None, closure, [E EXCEPT !.out = E.out \o <<"\n">>])
    ELSE Bind(IF i > 1 THEN [E EXCEPT !.out = E.out \o <<" ">>] ELSE E, LAMBDA E0 :
             Bind(Execute(args[i], closure, E0), LAMBDA r :
            IF r.sig # "ok" THEN r
            ELSE IF r.val.k = "None"
            THEN PrintLoop(args, i + 1, r.closure,
                           [r.E EXCEPT !.out = r.E.out \o <<"N","o","n","e">>])
            ELSE Bind(PrintObject(r.val, r.E, FALSE), LAMBDA pr :
                    IF pr.sig # "ok" THEN Res(pr.sig, None, r.closure, pr.E)
                    ELSE PrintLoop(args, i + 1, r.closure,
                                   [pr.E EXCEPT !.out = pr.E.out \o pr.str]))))

\* the loop of Compound::Execute from operation i on
CompoundLoop(ops, i, closure, E) ==
    IF i > Len(ops) THEN Res("ok", None, closure, E)
    ELSE Bind(Execute(ops[i], closure, E), LAMBDA r :
            IF r.sig # "ok" THEN r ELSE CompoundLoop(ops, i + 1, r.closure, r.E))

\* VariableValue::Execute, the for loop: [thrown, i, fields]
RECURSIVE VariableLoop(_, _, _, _)
VariableLoop(id_seq, i, fields, E) ==
    IF i >= Len(id_seq) THEN [thrown |-> FALSE, i |-> i, fields |-> fields]
    ELSE Bind(id_seq[i], LAMBDA id_name :
            IF id_name \notin DOMAIN fields
            THEN [thrown |-> TRUE, i |-> i, fields |-> fields]
            ELSE IF fields[id_name].k = "ClassInstance"
            THEN VariableLoop(id_seq, i + 1, E.heap[fields[id_name].ref].fields, E)
            ELSE [thrown |-> FALSE, i |-> i + 1, fields |-> fields])

VariableValueExecute(id_seq, closure, E) ==
    IF id_seq[1] \notin DOMAIN closure THEN Res("error", None, closure, E)
    ELSE Bind(VariableLoop(id_seq, 1, closure, E), LAMBDA l :
            IF l.thrown \/ l.i # Len(id_seq) THEN Res("error", None, closure, E)
            ELSE IF id_seq[l.i] \notin DOMAIN l.fields
            THEN Res("error", None, closure, E)
            ELSE Res("ok", l.fields[id_seq[l.i]], closure, E))

\* a MakeComparison that finds operands of different variants unequal and
\* unordered instead of throwing
MakeComparisonLenient(lhs, rhs, E, embedded_cmp) ==
    IF lhs.k = "None" \/ rhs.k = "None" THEN [sig |-> "error", val |-> FALSE, E |-> E]
    ELSE IF lhs.k = "ClassInstance"
    THEN Bind(Call(lhs.ref, embedded_cmp, <<rhs>>, E), LAMBDA c :
            [sig |-> c.sig, val |-> IF c.sig = "ok" THEN IsTrue(c.val) ELSE FALSE, E |-> c.E])
    ELSE IF lhs.k = rhs.k /\ lhs.k \in {"String", "Number", "Bool"}
    THEN [sig |-> "ok", val |-> AltCmp(embedded_cmp, lhs, rhs), E |-> E]
    ELSE [sig |-> "ok", val |-> FALSE, E |-> E]

\* MakeComparison: [sig, val, E], val a Boolean
MakeComparison(lhs, rhs, E, embedded_cmp) ==
    IF lhs.k = "None" \/ rhs.k = "None" THEN [sig |-> "error", val |-> FALSE, E |-> E]
    ELSE IF lhs.k = "ClassInstance"
    THEN Bind(Call(lhs.ref, embedded_cmp, <<rhs>>, E), LAMBDA c :
            [sig |-> c.sig, val |-> IF c.sig = "ok" THEN IsTrue(c.val) ELSE FALSE, E |-> c.E])
    ELSE IF lhs.k = rhs.k /\ lhs.k \in {"String", "Number", "Bool"}
    THEN [sig |-> "ok", val |-> AltCmp(embedded_cmp, lhs, rhs), E |-> E]
    ELSE [sig |-> "error", val |-> FALSE, E |-> E]

Equal(lhs, rhs, E) == MakeComparison(lhs, rhs, E, EQ_METHOD)
Less(lhs, rhs, E) == MakeComparison(lhs, rhs, E, LT_METHOD)
Negated(c) == IF c.sig = "ok" THEN [c EXCEPT !.val = ~c.val] ELSE c
NotEqual(lhs, rhs, E) == Negated(Equal(lhs, rhs, E))
\* a Greater that forgets the test of Equal
GreaterNotLess(lhs, rhs, E) == Negated(Less(lhs, rhs, E))

Greater(lhs, rhs, E) ==
    Bind(Less(lhs, rhs, E), LAMBDA l :
       IF l.sig # "ok" THEN l
       ELSE IF l.val THEN [l EXCEPT !.val = FALSE]
       ELSE Negated(Equal(lhs, rhs, l.E)))
LessOrEqual(lhs, rhs, E) == Negated(Greater(lhs, rhs, E))
GreaterOrEqual(lhs, rhs, E) == Negated(Less(lhs, rhs, E))

Compare(cmp, lhs, rhs, E) ==
    CASE cmp = "Equal" -> Equal(lhs, rhs, E)
      [] cmp = "NotEqual" -> NotEqual(lhs, rhs, E)
      [] cmp = "Less" -> Less(lhs, rhs, E)
      [] cmp = "Greater" -> Greater(lhs, rhs, E)
      [] cmp = "LessOrEqual" -> LessOrEqual(lhs, rhs, E)
      [] cmp = "GreaterOrEqual" -> GreaterOrEqual(lhs, rhs, E)

\* Add, Sub, Mult and Div on the evaluated operands
Arithmetic(op, lhs, rhs, closure, E) ==
    IF lhs.k = "Number" /\ rhs.k = "Number"
    THEN IF op = "Add" THEN Res("ok", Number(lhs.v + rhs.v), closure, E)
         ELSE IF op = "Sub" THEN Res("ok", Number(lhs.v - rhs.v), closure, E)
         ELSE IF op = "Mult" THEN Res("ok", Number(lhs.v * rhs.v), closure, E)
         ELSE IF rhs.v # 0 THEN Res("ok", Number(TruncDiv(lhs.v, rhs.v)), closure, E)
         \* int / 0 is undefined: the process traps or the division yields E.u
         ELSE IF E.u.trap THEN Res("crash", None, closure, E)
         ELSE Res("ok", Number(E.u.value), closure, E)
    ELSE IF op = "Add" /\ lhs.k = "String" /\ rhs.k = "String"
    THEN Res("ok", String(lhs.v \o rhs.v), closure, E)
    ELSE IF lhs.k = "ClassInstance"
    THEN Bind(Call(lhs.ref,
                       CASE op = "Add" -> ADD_METHOD [] op = "Sub" -> SUB_METHOD
                         [] op = "Mult" -> MUL_METHOD [] op = "Div" -> DIV_METHOD,
                       <<rhs>>, E), LAMBDA c :
            Res(c.sig, c.val, closure, c.E))
    ELSE Res("error", None, closure, E)

\* the coercion of an operand of Or and And: [sig, val, E], val a Boolean
Coerce(object, E) ==
    IF object.k = "ClassInstance"
    THEN Bind(Call(object.ref, BOOL_METHOD, <<>>, E), LAMBDA c :
            [sig |-> c.sig, val |-> IF c.sig = "ok" THEN IsTrue(c.val) ELSE FALSE, E |-> c.E])
    ELSE [sig |-> "ok", val |-> IsTrue(object), E |-> E]

\* an Or and And that evaluate and coerce both operands before deciding
EagerEvaluation(stop, node, closure, E) ==
    Bind(Execute(node.lhs, closure, E), LAMBDA l :
       IF l.sig # "ok" THEN l
       ELSE Bind(Coerce(l.val, l.E), LAMBDA lc :
               IF lc.sig # "ok" THEN Res(lc.sig, None, l.closure, lc.E)
               ELSE Bind(Execute(node.rhs, l.closure, lc.E), LAMBDA r :
                       IF r.sig # "ok" THEN r
                       ELSE Bind(Coerce(r.val, r.E), LAMBDA rc :
                               IF rc.sig # "ok" THEN Res(rc.sig, None, r.closure, rc.E)
                               ELSE Res("ok", Bool(IF lc.val = stop THEN stop ELSE rc.val),
                                        r.closure, rc.E)))))

\* Or::Execute (stop = TRUE) and And::Execute (stop = FALSE): the result is
\* decided by the left operand when its coerced value is stop
ShortCircuit(stop, node, closure, E) ==
    Bind(Execute(node.lhs, closure, E), LAMBDA l :
       IF l.sig # "ok" THEN l
       ELSE Bind(Coerce(l.val, l.E), LAMBDA lc :
               IF lc.sig # "ok" THEN Res(lc.sig, None, l.closure, lc.E)
               ELSE IF lc.val = stop THEN Res("ok", Bool(stop), l.closure, lc.E)
               ELSE Bind(Execute(node.rhs, l.closure, lc.E), LAMBDA r :
                       IF r.sig # "ok" THEN r
                       ELSE Bind(Coerce(r.val, r.E), LAMBDA rc :
                               IF rc.sig # "ok" THEN Res(rc.sig, None, r.closure, rc.E)
                               ELSE Res("ok", Bool(rc.val), r.closure, rc.E)))))

MethodCallExecute(node, closure, E) ==
    Bind(Execute(node.object, closure, E), LAMBDA o :
       IF o.sig # "ok" THEN o
       ELSE IF o.val.k = "ClassInstance"
       THEN Bind(ExecuteArgs(node.args, 1, o.closure, o.E, <<>>), LAMBDA a :
               IF a.sig # "ok" THEN Res(a.sig, a.val, a.closure, a.E)
               ELSE Bind(Call(o.val.ref, node.method, a.vals, a.E), LAMBDA c :
                       IF c.sig # "ok" THEN Res(c.sig, c.val, a.closure, c.E)
                       ELSE Res("ok", None, a.closure, c.E)))
       ELSE Res("ok", None, o.closure, o.E))

NewInstanceExecute(node, closure, E) ==
    IF HasMethod(E, node.id, INIT_METHOD, Len(node.args))
    THEN Bind(ExecuteArgs(node.args, 1, closure, E, <<>>), LAMBDA a :
            IF a.sig # "ok" THEN Res(a.sig, a.val, a.closure, a.E)
            ELSE Bind(Call(node.id, INIT_METHOD, a.vals, a.E), LAMBDA c :
                    IF c.sig # "ok" THEN Res(c.sig, c.val, a.closure, c.E)
                    ELSE Res("ok", ClassInstance(node.id), a.closure,
                             [c.E EXCEPT !.made = Append(@, node.id)])))
    ELSE Res("ok", ClassInstance(node.id), closure, [E EXCEPT !.made = Append(@, node.id)])

StringifyExecute(node, closure, E) ==
    Bind(Execute(node.arg, closure, E), LAMBDA a :
       IF a.sig # "ok" THEN a
       ELSE Bind(IF a.val.k = "ClassInstance" /\ HasMethod(a.E, a.val.ref, STR_METHOD, 0)
                     THEN Call(a.val.ref, STR_METHOD, <<>>, a.E)
                     ELSE [sig |-> "ok", val |-> a.val, E |-> a.E], LAMBDA c :
               IF c.sig # "ok" THEN Res(c.sig, c.val, a.closure, c.E)
               ELSE IF c.val.k = "None"
               THEN Res("ok", String(<<"N","o","n","e">>), a.closure, c.E)
               ELSE Bind(PrintObject(c.val, c.E, TRUE), LAMBDA pr :
                       IF pr.sig # "ok" THEN Res(pr.sig, None, a.closure, pr.E)
                       ELSE Res("ok", String(pr.str), a.closure, pr.E))))

FieldAssignmentExecute(node, closure, E) ==
    Bind(Execute(node.object, closure, E), LAMBDA o :
       IF o.sig # "ok" THEN o
       ELSE IF o.val.k = "ClassInstance"
       THEN Bind(Execute(node.rv, o.closure, o.E), LAMBDA r :
               IF r.sig # "ok" THEN r
               ELSE Res("ok", r.val, r.closure,
                        [r.E EXCEPT !.heap[o.val.ref].fields =
                                       Put(@, node.field_name, r.val)]))
       ELSE Res("ok", None, o.closure, o.E))

\* a copying Assignment: the variable is bound to a copy of the instance
AssignmentExecuteCopying(node, closure, E) ==
    Bind(Execute(node.rv, closure, E), LAMBDA r :
       IF r.sig # "ok" THEN r
       ELSE IF r.val.k = "ClassInstance"
       THEN Bind(0 - 1 - Cardinality(DOMAIN r.E.heap), LAMBDA copy :
               Res("ok", ClassInstance(copy), Put(r.closure, node.var, ClassInstance(copy)),
                   [r.E EXCEPT !.heap = Put(@, copy, r.E.heap[r.val.ref])]))
       ELSE Res("ok", r.val, Put(r.closure, node.var, r.val), r.E))

AssignmentExecute(node, closure, E) ==
    Bind(Execute(node.rv, closure, E), LAMBDA r :
       IF r.sig # "ok" THEN r
       ELSE Res("ok", r.val, Put(r.closure, node.var, r.val), r.E))

BinaryExecute(node, closure, E) ==
    Bind(Execute(node.lhs, closure, E), LAMBDA l :
       IF l.sig # "ok" THEN l
       ELSE Bind(Execute(node.rhs, l.closure, l.E), LAMBDA r :
               IF r.sig # "ok" THEN r
               ELSE IF node.node = "Comparison"
               THEN Bind(Compare(node.cmp, l.val, r.val, r.E), LAMBDA c :
                       IF c.sig # "ok" THEN Res(c.sig, None, r.closure, c.E)
                       ELSE Res("ok", Bool(c.val), r.closure, c.E))
               ELSE Arithmetic(node.node, l.val, r.val, r.closure, r.E)))

NotExecute(node, closure, E) ==
    Bind(Execute(node.arg, closure, E), LAMBDA a :
       IF a.sig # "ok" THEN a
       ELSE Bind(IF a.val.k = "ClassInstance" /\ HasMethod(a.E, a.val.ref, BOOL_METHOD, 0)
                     THEN Call(a.val.ref, BOOL_METHOD, <<>>, a.E)
                     ELSE [sig |-> "ok", val |-> a.val, E |-> a.E], LAMBDA c :
               IF c.sig # "ok" THEN Res(c.sig, c.val, a.closure, c.E)
               ELSE Res("ok", Bool(~IsTrue(c.val)), a.closure, c.E)))

MethodBodyExecute(node, closure, E) ==
    Bind(Execute(node.body, closure, E), LAMBDA r :
       IF r.sig = "return" THEN Res("ok", r.val, r.closure, r.E)
       ELSE IF r.sig = "ok" THEN Res("ok", None, r.closure, r.E)
       ELSE r)

ReturnExecute(node, closure, E) ==
    Bind(Execute(node.statement, closure, E), LAMBDA r :
       IF r.sig # "ok" THEN r ELSE Res("return", r.val, r.closure, r.E))

ClassDefinitionExecute(node, closure, E) ==
    Res("ok", None,
        IF node.cls \in DOMAIN closure THEN closure
        ELSE Put(closure, node.cls, ClassValue(node.cls)), E)

IfElseExecute(node, closure, E) ==
    Bind(Execute(node.condition, closure, E), LAMBDA c :
       IF c.sig # "ok" THEN c
       ELSE IF IsTrue(c.val) THEN Execute(node.if_body, c.closure, c.E)
       ELSE IF node.else_body # NoNode THEN Execute(node.else_body, c.closure, c.E)
       ELSE Res("ok", None, c.closure, c.E))

Execute(node, closure, E) ==
    CASE node.node = "NumericConst" -> Res("ok", Number(node.value), closure, E)
      [] node.node = "StringConst" -> Res("ok", String(node.value), closure, E)
      [] node.node = "BoolConst" -> Res("ok", Bool(node.value), closure, E)
      [] node.node = "None" -> Res("ok", None, closure, E)
      [] node.node = "VariableValue" -> VariableValueExecute(node.id_seq, closure, E)
      [] node.node = "Assignment" -> AssignmentExecute(node, closure, E)
      [] node.node = "FieldAssignment" -> FieldAssignmentExecute(node, closure, E)
      [] node.node = "Print" -> PrintLoop(node.args, 1, closure, E)
      [] node.node = "MethodCall" -> MethodCallExecute(node, closure, E)
      [] node.node = "NewInstance" -> NewInstanceExecute(node, closure, E)
      [] node.node = "Stringify" -> StringifyExecute(node, closure, E)
      [] node.node \in {"Add", "Sub", "Mult", "Div", "Comparison"} ->
            BinaryExecute(node, closure, E)
      [] node.node = "Or" -> ShortCircuit(TRUE, node, closure, E)
      [] node.node = "And" -> ShortCircuit(FALSE, node, closure, E)
      [] node.node = "Not" -> NotExecute(node, closure, E)
      [] node.node = "Compound" -> CompoundLoop(node.operations, 1, closure, E)
      [] node.node = "MethodBody" -> MethodBodyExecute(node, closure, E)
      [] node.node = "Return" -> ReturnExecute(node, closure, E)
      [] node.node = "ClassDefinition" -> ClassDefinitionExecute(node, closure, E)
      [] node.node = "IfElse" -> IfElseExecute(node, closure, E)

(***************************************************************************)
(* The inputs.                                                             *)
(***************************************************************************)
SeqsUpTo(S, n) == UNION {[1..k -> S] : k \in 0..n}

IndentAlphabet == {"a", " ", "\n"}
WordAlphabet == {"o", "r", "=", " ", ",", "1"}
QuoteAlphabet == {"'", "\"", "a", "\t"}

IndentInputs == SeqsUpTo(IndentAlphabet, MaxIndentLen)
WordInputs == SeqsUpTo(WordAlphabet, MaxWordLen)
QuoteInputs == SeqsUpTo(QuoteAlphabet, MaxQuoteLen)

(***************************************************************************)
(* Whole programs: those of the tests of src/src/main.cpp and programs     *)
(* that exercise one statement each.                                       *)
(***************************************************************************)
\* the program of src/src/main.cpp:35-43:
\*   |
\*   |print 57
\*   |print 10, 24, -8
\*   |print 'hello'
\*   |print "world"
\*   |print True, False
\*   |print
\*   |print None
ProgSimplePrints ==
    <<"\n","p","r","i","n","t"," ","5","7","\n","p","r","i","n","t"," ","1","0",","," ",
      "2","4",","," ","-","8","\n","p","r","i","n","t"," ","'","h","e","l","l","o","'",
      "\n","p","r","i","n","t"," ","\"","w","o","r","l","d","\"","\n","p","r","i","n",
      "t"," ","T","r","u","e",","," ","F","a","l","s","e","\n","p","r","i","n","t","\n",
      "p","r","i","n","t"," ","N","o","n","e","\n">>

\* the program of src/src/main.cpp:52-62:
\*   |
\*   |x = 57
\*   |print x
\*   |x = 'C++ black belt'
\*   |print x
\*   |y = False
\*   |x = y
\*   |print x
\*   |x = None
\*   |print x, y
ProgAssignments ==
    <<"\n","x"," ","="," ","5","7","\n","p","r","i","n","t"," ","x","\n","x"," ","=",
      " ","'","C","+","+"," ","b","l","a","c","k"," ","b","e","l","t","'","\n","p","r",
      "i","n","t"," ","x","\n","y"," ","="," ","F","a","l","s","e","\n","x"," ","="," ",
      "y","\n","p","r","i","n","t"," ","x","\n","x"," ","="," ","N","o","n","e","\n",
      "p","r","i","n","t"," ","x",","," ","y","\n">>

\* the program of src/src/main.cpp:71:
\*   |print 1+2+3+4+5, 1*2*3*4*5, 1-2-3-4-5, 36/4/3, 2*5+10/2
ProgArithmetics ==
    <<"p","r","i","n","t"," ","1","+","2","+","3","+","4","+","5",","," ","1","*","2",
      "*","3","*","4","*","5",","," ","1","-","2","-","3","-","4","-","5",","," ","3",
      "6","/","4","/","3",","," ","2","*","5","+","1","0","/","2">>

\* the program:
\*   |class D:
\*   |  def t(c):
\*   |    c.v = c.v + 1
\*   |x = D()
\*   |y = x
\*   |x.v = 1
\*   |print y.v
\*   |y.t(x)
\*   |print x.v, y.v
ProgAliases ==
    <<"c","l","a","s","s"," ","D",":","\n"," "," ","d","e","f"," ","t","(","c",")",":",
      "\n"," "," "," "," ","c",".","v"," ","="," ","c",".","v"," ","+"," ","1","\n","x",
      " ","="," ","D","(",")","\n","y"," ","="," ","x","\n","x",".","v"," ","="," ","1",
      "\n","p","r","i","n","t"," ","y",".","v","\n","y",".","t","(","x",")","\n","p",
      "r","i","n","t"," ","x",".","v",","," ","y",".","v","\n">>

\* the program:
\*   |class A:
\*   |  def m():
\*   |    return 5
\*   |x = A()
\*   |y = x.m()
\*   |print y
\*   |print x.m()
\*   |print 1
ProgReturnValue ==
    <<"c","l","a","s","s"," ","A",":","\n"," "," ","d","e","f"," ","m","(",")",":","\n",
      " "," "," "," ","r","e","t","u","r","n"," ","5","\n","x"," ","="," ","A","(",")",
      "\n","y"," ","="," ","x",".","m","(",")","\n","p","r","i","n","t"," ","y","\n",
      "p","r","i","n","t"," ","x",".","m","(",")","\n","p","r","i","n","t"," ","1","\n">>

\* the program:
\*   |print 1
\*   |return 2
\*   |print 3
ProgTopReturn ==
    <<"p","r","i","n","t"," ","1","\n","r","e","t","u","r","n"," ","2","\n","p","r","i",
      "n","t"," ","3","\n">>

\* the program:
\*   |class A:
\*   |  def m():
\*   |    return 1
\*   |x = A()
\*   |if x:
\*   |  print 1
\*   |else:
\*   |  print 0
\*   |print 2
\*   |print 3
ProgIfInstance ==
    <<"c","l","a","s","s"," ","A",":","\n"," "," ","d","e","f"," ","m","(",")",":","\n",
      " "," "," "," ","r","e","t","u","r","n"," ","1","\n","x"," ","="," ","A","(",")",
      "\n","i","f"," ","x",":","\n"," "," ","p","r","i","n","t"," ","1","\n","e","l",
      "s","e",":","\n"," "," ","p","r","i","n","t"," ","0","\n","p","r","i","n","t"," ",
      "2","\n","p","r","i","n","t"," ","3","\n">>

\* the program:
\*   |print 1
\*   |x = 6 / 0
\*   |print x
ProgDivZero ==
    <<"p","r","i","n","t"," ","1","\n","x"," ","="," ","6"," ","/"," ","0","\n","p","r",
      "i","n","t"," ","x","\n">>

\* the program:
\*   |class A:
\*   |  def m():
\*   |    return 1
\*   |class H:
\*   |  def f():
\*   |    self.a = A()
\*   |h = H()
\*   |h.f()
\*   |h.a.v = 1
\*   |h.f()
\*   |print h.a.v
ProgNewInstance ==
    <<"c","l","a","s","s"," ","A",":","\n"," "," ","d","e","f"," ","m","(",")",":","\n",
      " "," "," "," ","r","e","t","u","r","n"," ","1","\n","c","l","a","s","s"," ","H",
      ":","\n"," "," ","d","e","f"," ","f","(",")",":","\n"," "," "," "," ","s","e","l",
      "f",".","a"," ","="," ","A","(",")","\n","h"," ","="," ","H","(",")","\n","h",".",
      "f","(",")","\n","h",".","a",".","v"," ","="," ","1","\n","h",".","f","(",")",
      "\n","p","r","i","n","t"," ","h",".","a",".","v","\n">>

\* the program:
\*   |print 1, 'a'
\*   |print
\*   |print None, 2
\*   |print True
ProgPrints ==
    <<"p","r","i","n","t"," ","1",","," ","'","a","'","\n","p","r","i","n","t","\n","p",
      "r","i","n","t"," ","N","o","n","e",","," ","2","\n","p","r","i","n","t"," ","T",
      "r","u","e","\n">>

\* the program:
\*   |print 7
\*   |print
ProgBarePrint ==
    <<"p","r","i","n","t"," ","7","\n","p","r","i","n","t","\n">>

\* the program:
\*   |print -7/2, 7/-2, -2*3, 2--3, -(1+2)*3, 8-6/4*2
ProgUnaryMinus ==
    <<"p","r","i","n","t"," ","-","7","/","2",","," ","7","/","-","2",","," ","-","2",
      "*","3",","," ","2","-","-","3",","," ","-","(","1","+","2",")","*","3",","," ",
      "8","-","6","/","4","*","2","\n">>

\* the program:
\*   |x = 1
\*   |y = 2
\*   |print x.y
ProgDottedScalar ==
    <<"x"," ","="," ","1","\n","y"," ","="," ","2","\n","p","r","i","n","t"," ","x",".",
      "y","\n">>

\* the program:
\*   |class A:
\*   |  def f():
\*   |    print 1
\*   |  def g():
\*   |    print 2
\*   |class B(A):
\*   |  def g():
\*   |    print 3
\*   |class C(B):
\*   |  def h():
\*   |    print 4
\*   |x = C()
\*   |x.f()
\*   |x.g()
\*   |x.h()
\*   |x.k()
ProgInheritance ==
    <<"c","l","a","s","s"," ","A",":","\n"," "," ","d","e","f"," ","f","(",")",":","\n",
      " "," "," "," ","p","r","i","n","t"," ","1","\n"," "," ","d","e","f"," ","g","(",
      ")",":","\n"," "," "," "," ","p","r","i","n","t"," ","2","\n","c","l","a","s","s",
      " ","B","(","A",")",":","\n"," "," ","d","e","f"," ","g","(",")",":","\n"," "," ",
      " "," ","p","r","i","n","t"," ","3","\n","c","l","a","s","s"," ","C","(","B",")",
      ":","\n"," "," ","d","e","f"," ","h","(",")",":","\n"," "," "," "," ","p","r","i",
      "n","t"," ","4","\n","x"," ","="," ","C","(",")","\n","x",".","f","(",")","\n",
      "x",".","g","(",")","\n","x",".","h","(",")","\n","x",".","k","(",")","\n">>

\* the program:
\*   |class A:
\*   |  def f():
\*   |    print 1
\*   |class A:
\*   |  def f():
\*   |    print 2
\*   |x = A()
\*   |x.f()
ProgDuplicateClass ==
    <<"c","l","a","s","s"," ","A",":","\n"," "," ","d","e","f"," ","f","(",")",":","\n",
      " "," "," "," ","p","r","i","n","t"," ","1","\n","c","l","a","s","s"," ","A",":",
      "\n"," "," ","d","e","f"," ","f","(",")",":","\n"," "," "," "," ","p","r","i","n",
      "t"," ","2","\n","x"," ","="," ","A","(",")","\n","x",".","f","(",")","\n">>

\* the program:
\*   |x = 1
\*   |x.f()
\*   |print 2
ProgCallOnNumber ==
    <<"x"," ","="," ","1","\n","x",".","f","(",")","\n","p","r","i","n","t"," ","2","\n">>

\* the program:
\*   |2147483647
ProgIntMax ==
    <<"2","1","4","7","4","8","3","6","4","7">>

\* the program:
\*   |2147483648
ProgIntMaxPlusOne ==
    <<"2","1","4","7","4","8","3","6","4","8">>

\* the program:
\*   |9223372036854775807
ProgLongMax ==
    <<"9","2","2","3","3","7","2","0","3","6","8","5","4","7","7","5","8","0","7">>

\* the program:
\*   |A = 1
\*   |class A:
\*   |  def f():
\*   |    return 1
\*   |print A
\*   |print 2
ProgClassOverVariable ==
    <<"A"," ","="," ","1","\n","c","l","a","s","s"," ","A",":","\n"," "," ","d","e","f",
      " ","f","(",")",":","\n"," "," "," "," ","r","e","t","u","r","n"," ","1","\n","p",
      "r","i","n","t"," ","A","\n","p","r","i","n","t"," ","2","\n">>

\* the program:
\*   |class A:
\*   |  def f(p):
\*   |    v = p
\*   |    g = 5
\*   |    print v, g
\*   |  def h():
\*   |    print g
\*   |g = 1
\*   |x = A()
\*   |x.f(2)
\*   |print g
\*   |x.h()
ProgLocalClosure ==
    <<"c","l","a","s","s"," ","A",":","\n"," "," ","d","e","f"," ","f","(","p",")",":",
      "\n"," "," "," "," ","v"," ","="," ","p","\n"," "," "," "," ","g"," ","="," ","5",
      "\n"," "," "," "," ","p","r","i","n","t"," ","v",","," ","g","\n"," "," ","d","e",
      "f"," ","h","(",")",":","\n"," "," "," "," ","p","r","i","n","t"," ","g","\n","g",
      " ","="," ","1","\n","x"," ","="," ","A","(",")","\n","x",".","f","(","2",")",
      "\n","p","r","i","n","t"," ","g","\n","x",".","h","(",")","\n">>

Programs == {ProgLocalClosure,
             ProgClassOverVariable,
             ProgLongMax,
             ProgIntMaxPlusOne,
             ProgIntMax,
             ProgCallOnNumber,
             ProgDuplicateClass,
             ProgInheritance,
             ProgDottedScalar,
             ProgUnaryMinus,
             ProgSimplePrints,
             ProgAssignments,
             ProgArithmetics,
             ProgAliases,
             ProgReturnValue,
             ProgTopReturn,
             ProgIfInstance,
             ProgDivZero,
             ProgNewInstance,
             ProgPrints,
             ProgBarePrint}

Inputs == IndentInputs \cup WordInputs \cup QuoteInputs \cup Programs

\* the outcomes a build can produce for an int division by zero: the process
\* is killed by a trap, or the division yields some int
DivByZeroOutcomes == [trap : BOOLEAN, value : {0, 1}]

(***************************************************************************)
(* The state machine.                                                      *)
(***************************************************************************)
Init ==
    /\ text \in Inputs
    /\ input = [pos |-> 0, eof |-> FALSE, fail |-> FALSE]
    /\ token_queue = <<>>
    /\ current_intent_nesting = 0
    /\ raw_queue = <<>>
    /\ ub = FALSE
    /\ program = <<>>
    /\ ip = 0
    /\ global_closure = EmptyMap
    /\ declared_classes = EmptyMap
    /\ heap = EmptyMap
    /\ out = <<>>
    /\ made = <<>>
    /\ pc = "line"

\* Tokenise, the head of an iteration of the outer loop
TokeniseOuter ==
    /\ pc = "line"
    /\ Good(input)
    /\ LET r == PushIntents([s |-> input, q |-> token_queue], current_intent_nesting)
       IN /\ input' = r.L.s
          /\ token_queue' = r.L.q
          /\ current_intent_nesting' = r.nesting
    /\ pc' = "body"
    /\ UNCHANGED <<text, raw_queue, ub, runtime_vars>>

\* Tokenise, one iteration of the inner loop
TokeniseInner ==
    /\ pc = "body"
    /\ Good(input)
    /\ LET r == LineBodyIteration([s |-> input, q |-> token_queue])
       IN /\ input' = r.L.s
          /\ token_queue' = r.L.q
          /\ pc' = IF r.err # "none" THEN "lexer_error"
                   ELSE IF r.brk THEN "line" ELSE "body"
    /\ UNCHANGED <<text, current_intent_nesting, raw_queue, ub, runtime_vars>>

\* Tokenise, after the loops: Optimize and return
TokeniseOptimize ==
    /\ pc \in {"line", "body"}
    /\ ~Good(input)
    /\ raw_queue' = token_queue
    /\ LET r == Optimize(token_queue)
       IN IF r.ub
          THEN /\ ub' = TRUE
               /\ \/ pc' = "crashed" /\ token_queue' = r.q
                  \/ pc' = "lexed" /\ token_queue' \in UBOutcomes(r)
          ELSE /\ ub' = FALSE
               /\ pc' = "lexed"
               /\ token_queue' = r.q
    /\ UNCHANGED <<text, input, current_intent_nesting, runtime_vars>>

\* the instances the NewInstance nodes own, as constructed by the parser
InitialHeap(insts) == [id \in DOMAIN insts |-> [cls |-> insts[id], fields |-> EmptyMap]]

\* RunMythonProgram: ParseProgram(lexer)
Parse ==
    /\ pc = "lexed"
    /\ \E r \in {ParseProgram([idx |-> 0, classes |-> EmptyMap, insts |-> EmptyMap])} :
          IF r.err # "none"
          THEN /\ pc' = "parse_error"
               /\ UNCHANGED runtime_vars
          ELSE /\ program' = r.node.operations
               /\ declared_classes' = r.P.classes
               /\ heap' = InitialHeap(r.P.insts)
               /\ pc' = IF r.node.operations = <<>> THEN "done" ELSE "run"
               /\ UNCHANGED <<ip, global_closure, out, made>>
    /\ UNCHANGED <<text, lexer_vars>>

\* what the evaluators see besides the closure, u being the outcome of a
\* division by zero
Context(u) ==
    [classes |-> declared_classes, heap |-> heap, out |-> out, u |-> u, made |-> made]

\* RunMythonProgram: program->Execute(closure, context), one operation of the
\* top-level Compound per step
ExecuteStatement ==
    /\ pc = "run"
    /\ \E u \in DivByZeroOutcomes :
         \E r \in {Execute(program[ip + 1], global_closure, Context(u))} :
            /\ global_closure' = r.closure
            /\ heap' = r.E.heap
            /\ out' = r.E.out
            /\ made' = r.E.made
            /\ ip' = IF r.sig = "ok" THEN ip + 1 ELSE ip
            /\ pc' = CASE r.sig = "ok" ->
                             IF ip + 1 = Len(program) THEN "done" ELSE "run"
                        [] r.sig = "error" -> "runtime_error"
                        [] r.sig = "return" -> "terminated"
                        [] r.sig = "crash" -> "crashed"
    /\ UNCHANGED <<text, lexer_vars, program, declared_classes>>

Next ==
    \/ TokeniseOuter
    \/ TokeniseInner
    \/ TokeniseOptimize
    \/ Parse
    \/ ExecuteStatement

Spec == Init /\ [][Next]_vars

(***************************************************************************)
(* One comparison.  The closure holds the operands under a and b, the      *)
(* program is the one statement c = a <cmp> b, and the class table and     *)
(* the instances are the ones a program defining E, Q, W and N would       *)
(* leave behind.                                                           *)
(***************************************************************************)
Comparators == {"Equal", "NotEqual", "Less", "Greater", "LessOrEqual", "GreaterOrEqual"}

\* def <name>(<formal_params>): return <value>
ReturningMethod(name, formal_params, value) ==
    [name |-> name, formal_params |-> formal_params,
     body |-> [node |-> "MethodBody",
               body |-> [node |-> "Compound",
                         operations |-> <<[node |-> "Return",
                                           statement |-> [node |-> "BoolConst",
                                                          value |-> value]]>>]]]

\* E defines __eq__ and __lt__ of one argument, Q only __eq__, W an __eq__ of
\* no argument and an __lt__ of one, N neither
ComparisonClasses ==
    Put(Put(Put(Put(EmptyMap,
        <<"E">>, Class(<<"E">>, <<ReturningMethod(EQ_METHOD, <<<<"o">>>>, TRUE),
                                  ReturningMethod(LT_METHOD, <<<<"o">>>>, FALSE)>>, NoParent)),
        <<"Q">>, Class(<<"Q">>, <<ReturningMethod(EQ_METHOD, <<<<"o">>>>, FALSE)>>, NoParent)),
        <<"W">>, Class(<<"W">>, <<ReturningMethod(EQ_METHOD, <<>>, TRUE),
                                  ReturningMethod(LT_METHOD, <<<<"o">>>>, TRUE)>>, NoParent)),
        <<"N">>, Class(<<"N">>, <<>>, NoParent))

ComparisonHeap ==
    InitialHeap(Put(Put(Put(Put(EmptyMap, 1, <<"E">>), 2, <<"Q">>), 3, <<"W">>), 4, <<"N">>))

ComparedValues ==
    <<Number(0 - 1), Number(0), Number(1),
      String(<<>>), String(<<"a">>), String(<<"a", "b">>), String(<<"b">>),
      Bool(FALSE), Bool(TRUE), None, ClassValue(<<"E">>),
      ClassInstance(1), ClassInstance(2), ClassInstance(3), ClassInstance(4)>>

ComparisonStatement(cmp) ==
    [node |-> "Assignment", var |-> <<"c">>,
     rv |-> [node |-> "Comparison", cmp |-> cmp,
             lhs |-> VariableValue(<<<<"a">>>>), rhs |-> VariableValue(<<<<"b">>>>)]]

ComparisonInit ==
    /\ text = <<>>
    /\ input = [pos |-> 0, eof |-> TRUE, fail |-> TRUE]
    /\ token_queue = <<>>
    /\ current_intent_nesting = 0
    /\ raw_queue = <<>>
    /\ ub = FALSE
    /\ \E cmp \in Comparators : program = <<ComparisonStatement(cmp)>>
    /\ ip = 0
    /\ \E i, j \in 1..Len(ComparedValues) :
          global_closure = Put(Put(EmptyMap, <<"a">>, ComparedValues[i]),
                               <<"b">>, ComparedValues[j])
    /\ declared_classes = ComparisonClasses
    /\ heap = ComparisonHeap
    /\ out = <<>>
    /\ made = <<>>
    /\ pc = "run"

ComparisonSpec == ComparisonInit /\ [][ExecuteStatement]_vars

(***************************************************************************)
(* One Or or And.  The program is the one statement c = <lhs> or <rhs> or  *)
(* c = <lhs> and <rhs>; an operand is a constant or the construction of an *)
(* instance, which made records.  T defines a __bool__ returning True, F   *)
(* one returning False, and N defines no __bool__.                         *)
(***************************************************************************)
LogicClasses ==
    Put(Put(Put(EmptyMap,
        <<"T">>, Class(<<"T">>, <<ReturningMethod(BOOL_METHOD, <<>>, TRUE)>>, NoParent)),
        <<"F">>, Class(<<"F">>, <<ReturningMethod(BOOL_METHOD, <<>>, FALSE)>>, NoParent)),
        <<"N">>, Class(<<"N">>, <<ReturningMethod(<<"f">>, <<>>, TRUE)>>, NoParent))

\* the instances the six NewInstance nodes own: 1..3 on the left, 4..6 on
\* the right
LogicHeap ==
    InitialHeap(Put(Put(Put(Put(Put(Put(EmptyMap, 1, <<"T">>), 2, <<"F">>), 3, <<"N">>),
                                4, <<"T">>), 5, <<"F">>), 6, <<"N">>))

NewInstance(id, class) == [node |-> "NewInstance", id |-> id, class |-> class, args |-> <<>>]

LogicOperands(first_id) ==
    <<NumericConst(0), NumericConst(2), [node |-> "StringConst", value |-> <<>>],
      [node |-> "StringConst", value |-> <<"a">>], [node |-> "BoolConst", value |-> FALSE],
      [node |-> "BoolConst", value |-> TRUE], [node |-> "None"],
      NewInstance(first_id, <<"T">>), NewInstance(first_id + 1, <<"F">>),
      NewInstance(first_id + 2, <<"N">>)>>

LogicStatement(op, i, j) ==
    [node |-> "Assignment", var |-> <<"c">>,
     rv |-> [node |-> op, lhs |-> LogicOperands(1)[i], rhs |-> LogicOperands(4)[j]]]

LogicInit ==
    /\ text = <<>>
    /\ input = [pos |-> 0, eof |-> TRUE, fail |-> TRUE]
    /\ token_queue = <<>>
    /\ current_intent_nesting = 0
    /\ raw_queue = <<>>
    /\ ub = FALSE
    /\ \E op \in {"Or", "And"} : \E i, j \in 1..Len(LogicOperands(1)) :
          program = <<LogicStatement(op, i, j)>>
    /\ ip = 0
    /\ global_closure = EmptyMap
    /\ declared_classes = LogicClasses
    /\ heap = LogicHeap
    /\ out = <<>>
    /\ made = <<>>
    /\ pc = "run"

LogicSpec == LogicInit /\ [][ExecuteStatement]_vars

(***************************************************************************)
(* Properties.                                                             *)
(***************************************************************************)
Lexed == pc = "lexed" /\ ~ub
Finished ==
    pc \in {"done", "lexer_error", "parse_error", "runtime_error", "terminated", "crashed"}
NoTrap == [trap |-> FALSE, value |-> 0]

\* C1: a method call in expression position, here the right-hand side of a
\* top-level assignment, evaluates to the value ClassInstance::Call yields
\* for the method, that is the value carried by the executed return: when
\* the statement is executed the variable is bound to that value.
C1_MethodCallYieldsReturnValue ==
    [][(/\ pc = "run"
        /\ program[ip + 1].node = "Assignment"
        /\ program[ip + 1].rv.node = "MethodCall")
       => \A node \in {program[ip + 1]} :
          \A o \in {Execute(node.rv.object, global_closure, Context(NoTrap))} :
             (o.sig = "ok" /\ o.val.k = "ClassInstance")
             => \A a \in {ExecuteArgs(node.rv.args, 1, o.closure, o.E, <<>>)} :
                   a.sig = "ok"
                   => \A c \in {Call(o.val.ref, node.rv.method, a.vals, a.E)} :
                         c.sig = "ok"
                         => /\ ip' = ip + 1
                            /\ node.var \in DOMAIN global_closure'
                            /\ global_closure'[node.var] = c.val]_vars

\* C2: a word of the fixed table never comes out of the lexer as an Id token
\* (an Id token is a whole maximal identifier, so it is a standalone
\* occurrence of its word).
C2_TableWordsAreKeywords ==
    Lexed => \A i \in 1..Len(token_queue) :
                token_queue[i].type = "Id"
                => SpecialWordOf(token_queue[i].value) = "NotSpecial"

\* C3: the token sequence the lexer returns has no two adjacent Newline
\* tokens and neither starts nor ends with a Newline.
C3_NewlinesNormalized ==
    Lexed => /\ \A i \in 1..(Len(token_queue) - 1) :
                   ~(IsNewline(token_queue[i]) /\ IsNewline(token_queue[i + 1]))
             /\ token_queue # <<>> => /\ ~IsNewline(token_queue[1])
                                      /\ ~IsNewline(token_queue[Len(token_queue)])

CountUpTo(q, n, type) == Cardinality({i \in 1..n : q[i].type = type})

\* C4: in the token sequence the lexer returns every prefix has at least as
\* many Indent as Dedent tokens and the whole sequence has equally many.
C4_IndentationBalanced ==
    Lexed => /\ \A n \in 1..Len(token_queue) :
                   CountUpTo(token_queue, n, "Indent")
                     >= CountUpTo(token_queue, n, "Dedent")
             /\ CountUpTo(token_queue, Len(token_queue), "Indent")
                  = CountUpTo(token_queue, Len(token_queue), "Dedent")

\* C5: the return signal never escapes out of the execution of the top-level
\* program of a program the parser accepted.
C5_ReturnNeverEscapes == pc # "terminated"

\* None, Number(0), Bool(false) and the empty String
Falsy(object) ==
    \/ object.k = "None"
    \/ object.k = "Number" /\ object.v = 0
    \/ object.k = "Bool" /\ object.v = FALSE
    \/ object.k = "String" /\ object.v = <<>>

\* C6: IsTrue is false exactly for None, Number(0), Bool(false) and the empty
\* String, on every value a variable holds; and the if statement of
\* ProgIfInstance, whose condition is an instance, runs its if-branch.
C6_Truthiness ==
    /\ \A name \in DOMAIN global_closure :
          IsTrue(global_closure[name]) = ~Falsy(global_closure[name])
    /\ (text = ProgIfInstance /\ pc = "done")
          => out = <<"1", "\n", "2", "\n", "3", "\n">>

\* an assignment of the quotient of a number constant by the constant 0
DividesByZero(statement) ==
    /\ statement.node = "Assignment"
    /\ statement.rv.node = "Div"
    /\ statement.rv.lhs.node = "NumericConst"
    /\ statement.rv.rhs = NumericConst(0)

\* C7: the evaluation of a Div of a Number by Number 0 never completes with a
\* value, and it ends the execution with a runtime error.
C7_DivisionByZeroIsAnError ==
    \A i \in 1..Len(program) :
        DividesByZero(program[i])
        => /\ ip < i
           /\ (ip = i - 1 /\ pc # "run") => pc = "runtime_error"

\* C8: the instances returned by the evaluations of NewInstance nodes are
\* pairwise different objects.
C8_NewInstanceIsFresh ==
    \A i, j \in 1..Len(made) : i # j => made[i] # made[j]

\* the executed top-level statements "y = x" whose two names have not been
\* assigned since and hold an instance
Aliases ==
    {i \in 1..ip :
        /\ program[i].node = "Assignment"
        /\ program[i].rv.node = "VariableValue"
        /\ Len(program[i].rv.id_seq) = 1
        /\ \A j \in (i + 1)..ip :
              program[j].node = "Assignment"
              => program[j].var \notin {program[i].var, program[i].rv.id_seq[1]}
        /\ global_closure[program[i].rv.id_seq[1]].k = "ClassInstance"}

FieldNames == UNION {DOMAIN heap[ref].fields : ref \in DOMAIN heap}

\* C9: after "y = x" with x an instance, x and y name the same instance, and
\* reading any field through x and through y gives the same result, whatever
\* was written through either name or inside a method that got the instance
\* as an argument.
C9_AssignmentAliases ==
    \A i \in Aliases :
        LET x == program[i].rv.id_seq[1]
            y == program[i].var
        IN /\ global_closure[y] = global_closure[x]
           /\ \A f \in FieldNames :
                 VariableValueExecute(<<x, f>>, global_closure, Context(NoTrap))
                   = VariableValueExecute(<<y, f>>, global_closure, Context(NoTrap))

\* ProgAliases has run: the write through x was read through y, and the
\* write made inside the method t through its argument is read through both
C9_Witness ==
    /\ text = ProgAliases
    /\ pc = "done"
    /\ Aliases # {}
    /\ out = <<"1", "\n", "2", " ", "2", "\n">>

\* what print statements are to write, by program
ExpectedOutput(t) ==
    CASE t = ProgSimplePrints ->
           <<"5","7","\n","1","0"," ","2","4"," ","-","8","\n","h","e","l","l","o","\n",
             "w","o","r","l","d","\n","T","r","u","e"," ","F","a","l","s","e","\n","\n",
             "N","o","n","e","\n">>
      [] t = ProgPrints ->
           <<"1"," ","a","\n","\n","N","o","n","e"," ","2","\n","T","r","u","e","\n">>
      [] t = ProgBarePrint -> <<"7","\n","\n">>

\* C10: a program of print statements runs to its end and has then written,
\* line by line, the renderings of the arguments separated by one space, an
\* empty line for a print without arguments.
C10_PrintOutput ==
    (text \in {ProgSimplePrints, ProgPrints, ProgBarePrint} /\ Finished)
       => pc = "done" /\ out = ExpectedOutput(text)

\* what the prints of the arithmetic programs are to write
ArithmeticOutput(t) ==
    CASE t = ProgArithmetics ->
           <<"1","5"," ","1","2","0"," ","-","1","3"," ","3"," ","1","5","\n">>
      [] t = ProgUnaryMinus ->
           <<"-","3"," ","-","3"," ","-","6"," ","5"," ","-","9"," ","6","\n">>

\* C11: arithmetic over integer literals: * and / bind tighter than + and -,
\* equal precedence associates to the left, unary minus negates, division
\* truncates toward zero; the two arithmetic programs run to their end and
\* print the values conventional arithmetic gives.
C11_ArithmeticSemantics ==
    (text \in {ProgArithmetics, ProgUnaryMinus} /\ Finished)
       => pc = "done" /\ out = ArithmeticOutput(text)

\* the program with unary minus and negative quotients has run and printed
C11_Witness ==
    /\ text = ProgUnaryMinus
    /\ pc = "done"
    /\ Len(out) = 16

\* C12: a top-level "name = expr" binds name to the value of expr whatever it
\* was bound to before, for expr a number, a string, True, False, None or a
\* variable, and a following print shows the new value: the program of
\* assignments runs to its end, has written the values assigned and leaves
\* x bound to None and y to False.
C12_AssignmentRebinds ==
    (text = ProgAssignments /\ Finished)
       => /\ pc = "done"
          /\ out = <<"5","7","\n","C","+","+"," ","b","l","a","c","k"," ","b","e","l","t","\n","F","a","l","s","e","\n","N","o","n","e"," ","F","a","l","s","e","\n">>
          /\ global_closure = [name \in {<<"x">>, <<"y">>} |->
                                  IF name = <<"x">> THEN None ELSE Bool(FALSE)]

\* the least index from i on at which t has a character of the set, or 0
IndexFrom(t, i, set) ==
    IF \E j \in i..Len(t) : t[j] \in set
    THEN CHOOSE j \in i..Len(t) : /\ t[j] \in set
                                  /\ \A k \in i..(j - 1) : t[k] \notin set
    ELSE 0

\* the text from i on, read outside any literal, has a string literal whose
\* opening quote has no matching closing quote; a comment runs to the newline
RECURSIVE UnterminatedFrom(_, _)
UnterminatedFrom(t, i) ==
    \E j \in {IndexFrom(t, i, QuoteChars \cup {"#"})} :
       /\ j # 0
       /\ \E e \in {IndexFrom(t, j + 1, IF t[j] = "#" THEN {"\n"} ELSE {t[j]})} :
             IF t[j] = "#" THEN e # 0 /\ UnterminatedFrom(t, e)
             ELSE e = 0 \/ UnterminatedFrom(t, e + 1)

\* C13: the lexing of an input with an unterminated string literal aborts
\* with a lexical error: the lexer never returns a token sequence for it.
C13_UnterminatedStringIsAnError ==
    UnterminatedFrom(text, 1) => pc \in {"line", "body"}

\* C14: tokenization terminates for every input.  The loops of Tokenise are
\* deterministic, so they end only if no iteration leaves the lexer as it
\* found it: every iteration of the inner loop that does not end the line
\* consumes input or queues a token.
C14_TokenisationTerminates ==
    (pc = "body" /\ Good(input))
       => \A r \in {LineBodyIteration([s |-> input, q |-> token_queue])} :
             r.brk \/ r.L.s # input \/ r.L.q # token_queue

\* the names bound at top level or as fields of an instance
Names == DOMAIN global_closure \cup FieldNames

\* the dotted paths of up to three names
DottedPaths == UNION {[1..n -> Names] : n \in 1..3}

\* the lookup of a dotted path from its i-th id on in a scope: the id is
\* looked up in the scope, and each following id in the fields of the instance
\* found before it
RECURSIVE Lookup(_, _, _)
Lookup(ids, i, scope) ==
    IF ids[i] \notin DOMAIN scope THEN [found |-> FALSE]
    ELSE IF i = Len(ids) THEN [found |-> TRUE, val |-> scope[ids[i]]]
    ELSE IF scope[ids[i]].k = "ClassInstance"
    THEN Lookup(ids, i + 1, heap[scope[ids[i]].ref].fields)
    ELSE [found |-> FALSE]

\* C15: the evaluation of a dotted path yields the value found by looking
\* the first id up in the closure and each following id in the fields of the
\* instance of the step before; it raises a runtime error when an id is
\* unbound at its step or a non-final step yields no instance.
C15_DottedPathLookup ==
    \A ids \in DottedPaths :
       \A r \in {VariableValueExecute(ids, global_closure, Context(NoTrap))} :
          \A l \in {Lookup(ids, 1, global_closure)} :
             IF l.found THEN r.sig = "ok" /\ r.val = l.val ELSE r.sig = "error"

\* two operands of one primitive variant
SamePrimitive(a, b) == a.k = b.k /\ a.k \in {"Number", "String", "Bool"}

\* the builtin strict order of two values of one primitive variant: < on int,
\* false before true, and on strings the first differing byte decides, a
\* proper prefix coming first
BuiltinLess(a, b) ==
    IF a.k = "Number" THEN a.v < b.v
    ELSE IF a.k = "Bool" THEN a.v = FALSE /\ b.v = TRUE
    ELSE \E i \in 1..Len(b.v) :
            /\ i <= Len(a.v) + 1
            /\ \A k \in 1..(i - 1) : a.v[k] = b.v[k]
            /\ IF i = Len(a.v) + 1 THEN TRUE ELSE CharCode(a.v[i]) < CharCode(b.v[i])

\* what a total order makes of the six comparators: exactly one of a < b,
\* a = b and b < a holds
BuiltinCompare(cmp, a, b) ==
    CASE cmp = "Equal" -> ~BuiltinLess(a, b) /\ ~BuiltinLess(b, a)
      [] cmp = "NotEqual" -> BuiltinLess(a, b) \/ BuiltinLess(b, a)
      [] cmp = "Less" -> BuiltinLess(a, b)
      [] cmp = "Greater" -> BuiltinLess(b, a)
      [] cmp = "LessOrEqual" -> ~BuiltinLess(b, a)
      [] cmp = "GreaterOrEqual" -> ~BuiltinLess(a, b)

\* C16: when both operands of a comparison are of one primitive variant
\* (Number, String or Bool), the statement c = a <cmp> b completes and binds c
\* to the Bool the builtin total order gives for the comparator: Equal is the
\* negation of NotEqual, exactly one of Less, Equal and Greater holds,
\* LessOrEqual is not Greater, GreaterOrEqual is not Less, and strings are
\* ordered lexicographically by byte; an equal value is a value with the same
\* payload
C16_ComparatorsAgreeWithOrder ==
    \A a \in {global_closure[<<"a">>]} : \A b \in {global_closure[<<"b">>]} :
       (pc # "run" /\ SamePrimitive(a, b)) =>
          /\ pc = "done"
          /\ global_closure[<<"c">>] = Bool(BuiltinCompare(program[1].rv.cmp, a, b))
          /\ BuiltinCompare("Equal", a, b) = (a.v = b.v)

C16_Witness ==
    /\ pc = "done"
    /\ program[1].rv.cmp = "Greater"
    /\ global_closure[<<"a">>].k = "String" /\ global_closure[<<"a">>].v = <<"a", "b">>
    /\ global_closure[<<"b">>].k = "String" /\ global_closure[<<"b">>].v = <<"a">>
    /\ global_closure[<<"c">>] = Bool(TRUE)

\* the method a comparator calls first on an instance on its left
FirstDunder(cmp) == IF cmp \in {"Equal", "NotEqual"} THEN EQ_METHOD ELSE LT_METHOD

\* the left operand is an instance whose class defines that method with one
\* parameter
ProvidesDunder(a, cmp) ==
    /\ a.k = "ClassInstance"
    /\ FirstDunder(cmp) \in DOMAIN declared_classes[heap[a.ref].cls].methods
    /\ Len(declared_classes[heap[a.ref].cls].methods[FirstDunder(cmp)].formal_params) = 1

\* C17: the statement c = a <cmp> b stops with a runtime error and binds no
\* Boolean to c whenever an operand is None, and whenever the operands are not
\* both Number, both String or both Bool while the left one is no instance
\* whose class defines, with one parameter, the dunder method the comparator
\* calls (__eq__ for Equal and NotEqual, __lt__ for the other four)
C17_IncomparableIsAnError ==
    \A a \in {global_closure[<<"a">>]} : \A b \in {global_closure[<<"b">>]} :
       (/\ pc # "run"
        /\ \/ a.k = "None"
           \/ b.k = "None"
           \/ ~SamePrimitive(a, b) /\ ~ProvidesDunder(a, program[1].rv.cmp))
       => pc = "runtime_error" /\ <<"c">> \notin DOMAIN global_closure

C17_Witness ==
    /\ pc = "runtime_error"
    /\ program[1].rv.cmp = "Less"
    /\ global_closure[<<"a">>].k = "ClassInstance"
    /\ heap[global_closure[<<"a">>].ref].cls = <<"Q">>
    /\ global_closure[<<"b">>].k = "Number"

\* the method record GetMethod yields for the method name of class cls
MethodOf(cls, name) ==
    [found |-> TRUE, formal_params |-> declared_classes[cls].methods[name].formal_params,
     body |-> declared_classes[cls].methods[name].body]

\* C18: in ProgInheritance, where C extends B and B extends A, A defines f
\* and g, B defines g and C defines h, method lookup on C yields C's own h,
\* for g the g of B, the nearest ancestor defining it, and not the different g
\* of A, for f the f of A, and nothing for k, which no class of the chain
\* defines; so on an instance of C the calls of f, g and h print 1, 3 and 4,
\* and the call of k stops the program
C18_MethodLookupFollowsParents ==
    /\ (text = ProgInheritance /\ pc = "run") =>
          /\ GetMethod(declared_classes, <<"C">>, <<"h">>) = MethodOf(<<"C">>, <<"h">>)
          /\ GetMethod(declared_classes, <<"C">>, <<"g">>) = MethodOf(<<"B">>, <<"g">>)
          /\ MethodOf(<<"B">>, <<"g">>) # MethodOf(<<"A">>, <<"g">>)
          /\ GetMethod(declared_classes, <<"C">>, <<"f">>) = MethodOf(<<"A">>, <<"f">>)
          /\ GetMethod(declared_classes, <<"B">>, <<"f">>) = MethodOf(<<"A">>, <<"f">>)
          /\ GetMethod(declared_classes, <<"C">>, <<"k">>) = NoMethod
          /\ GetMethod(declared_classes, <<"B">>, <<"h">>) = NoMethod
          /\ GetMethod(declared_classes, <<"A">>, <<"g">>) = MethodOf(<<"A">>, <<"g">>)
    /\ (text = ProgInheritance /\ Finished) =>
          /\ pc = "runtime_error"
          /\ ip = 7
          /\ out = <<"1","\n","3","\n","4","\n">>

C18_Witness == text = ProgInheritance /\ pc = "runtime_error" /\ Len(out) = 6

\* C19: the class table has one descriptor per name, the descriptor of that
\* name; inserting under a name the table has reports no insertion and leaves
\* the table as it was; and ProgDuplicateClass, which defines class A twice,
\* is aborted by a ParseError before any statement runs
C19_OneDescriptorPerClassName ==
    /\ \A name \in DOMAIN declared_classes :
          /\ declared_classes[name].name = name
          /\ \A ins \in {InsertClass(declared_classes, name, Class(name, <<>>, NoParent))} :
                ~ins.inserted /\ ins.table = declared_classes
    /\ (text = ProgDuplicateClass /\ pc = "lexed") =>
          ParseProgram([idx |-> 0, classes |-> EmptyMap, insts |-> EmptyMap]).err
             = "ParseError"
    /\ (text = ProgDuplicateClass /\ Finished) => pc = "parse_error" /\ out = <<>>

C19_Witness == text = ProgDuplicateClass /\ pc = "parse_error"

\* C20: a program with a method call that cannot be dispatched ends with a
\* runtime error: ProgCallOnNumber calls f on a variable bound to a number,
\* ProgInheritance calls k on an instance whose class chain has no k
C20_UndispatchableCallIsAnError ==
    (text \in {ProgCallOnNumber, ProgInheritance} /\ Finished) => pc = "runtime_error"

\* what an operand of LogicSpec coerces to: the truthiness of a constant, the
\* value the __bool__ of the instance's class returns
OperandTruth(operand) ==
    CASE operand.node = "NumericConst" -> operand.value # 0
      [] operand.node = "StringConst" -> operand.value # <<>>
      [] operand.node = "BoolConst" -> operand.value
      [] operand.node = "None" -> FALSE
      [] operand.node = "NewInstance" -> operand.class = <<"T">>

LacksBool(operand) == operand.node = "NewInstance" /\ operand.class = <<"N">>
Constructs(operand) == IF operand.node = "NewInstance" THEN <<operand.id>> ELSE <<>>

\* the right operand decides: the left one coerces to false under Or, to
\* true under And
RightDecides(e) ==
    IF e.node = "Or" THEN ~OperandTruth(e.lhs) ELSE OperandTruth(e.lhs)

\* C21: the statement c = <lhs> or <rhs> (and likewise with And), whose
\* operands are constants or instances with a __bool__, completes and binds
\* c to the Bool of the disjunction (conjunction) of the coerced operands,
\* never to an operand; the instances constructed are the left operand's,
\* once, followed by the right operand's only when the coerced left operand
\* is false under Or, true under And
C21_OrAndShortCircuit ==
    \A e \in {program[1].rv} :
       (/\ pc # "run"
        /\ e.node \in {"Or", "And"}
        /\ ~LacksBool(e.lhs)
        /\ RightDecides(e) => ~LacksBool(e.rhs))
       => /\ pc = "done"
          /\ global_closure[<<"c">>] =
                Bool(IF e.node = "Or" THEN OperandTruth(e.lhs) \/ OperandTruth(e.rhs)
                     ELSE OperandTruth(e.lhs) /\ OperandTruth(e.rhs))
          /\ made = Constructs(e.lhs) \o (IF RightDecides(e) THEN Constructs(e.rhs) ELSE <<>>)

C21_Witness ==
    /\ pc = "done"
    /\ program[1].rv.node = "Or"
    /\ program[1].rv.lhs.node = "NewInstance"
    /\ program[1].rv.rhs.node = "NewInstance"
    /\ made = <<1>>
    /\ global_closure[<<"c">>] = Bool(TRUE)

\* C22: the statement c = <lhs> or <rhs> (and likewise with And) whose left
\* operand is an instance of a class without __bool__ and whose right operand
\* is a constant raises no error: the instance is coerced by its truthiness,
\* which is false, so Or yields the coerced right operand and And yields
\* false without evaluating it
C22_InstanceWithoutBoolIsCoerced ==
    \A e \in {program[1].rv} :
       (/\ pc # "run"
        /\ e.node \in {"Or", "And"}
        /\ LacksBool(e.lhs)
        /\ e.rhs.node # "NewInstance")
       => /\ pc = "done"
          /\ global_closure[<<"c">>] =
                Bool(IF e.node = "Or" THEN OperandTruth(e.rhs) ELSE FALSE)

\* the number of spaces the text has from the position of the input on
LeadingSpaces ==
    CHOOSE n \in 0..(Len(text) - input.pos) :
       /\ \A k \in 1..n : text[input.pos + k] = " "
       /\ input.pos + n = Len(text) \/ text[input.pos + n + 1] # " "

IntentTokens(q) == {i \in 1..Len(q) : Is(q[i], "Indent") \/ Is(q[i], "Dedent")}

\* C23: the raw pass reads indentation only with the input at the start of
\* the text or just behind a newline; with n leading spaces there and p the
\* tracked nesting it appends n div 2 - p Indent tokens when n div 2 > p,
\* p - n div 2 Dedent tokens when n div 2 < p and nothing when they are equal,
\* and tracks n div 2; the rest of a line appends no Indent or Dedent token
\* and leaves the tracked nesting alone
C23_IndentationDeltas ==
    [][/\ (pc = "line" /\ pc' = "body") =>
             /\ input.pos = 0 \/ text[input.pos] = "\n"
             /\ \A c \in {LeadingSpaces \div 2} : \A p \in {current_intent_nesting} :
                   /\ current_intent_nesting' = c
                   /\ token_queue' = token_queue \o
                         [i \in 1..(IF c > p THEN c - p ELSE p - c) |->
                             IF c > p THEN Indent ELSE Dedent]
       /\ (pc = "body" /\ pc' \in {"line", "body"}) =>
             /\ current_intent_nesting' = current_intent_nesting
             /\ IntentTokens(token_queue') = IntentTokens(token_queue)
             /\ Len(token_queue') >= Len(token_queue)]_vars

C23_Witness ==
    /\ pc = "body"
    /\ current_intent_nesting = 1
    /\ Len(token_queue) >= 4
    /\ Is(token_queue[Len(token_queue)], "Dedent")
    /\ Is(token_queue[Len(token_queue) - 1], "Newline")
    /\ Is(token_queue[1], "Indent") /\ Is(token_queue[2], "Indent")

\* a token other than Newline, Indent and Dedent
IsSignificant(tok) == tok.type \notin {"Newline", "Indent", "Dedent"}
Positions(q) == SelectSeq([i \in 1..Len(q) |-> i], LAMBDA i : IsSignificant(q[i]))
Significant(q) == SelectSeq(q, IsSignificant)

\* Indent minus Dedent tokens of a run of raw tokens
NetIntents(run) ==
    Cardinality({i \in 1..Len(run) : Is(run[i], "Indent")})
       - Cardinality({i \in 1..Len(run) : Is(run[i], "Dedent")})

\* what the normalized sequence holds for the raw run between two
\* significant tokens
NormalizedRun(run) ==
    IF \A i \in 1..Len(run) : ~Is(run[i], "Newline") THEN <<>>
    ELSE <<Newline>> \o [i \in 1..(IF NetIntents(run) > 0 THEN NetIntents(run)
                                   ELSE 0 - NetIntents(run)) |->
                           IF NetIntents(run) > 0 THEN Indent ELSE Dedent]

Between(q, ps, j) == SubSeq(q, ps[j] + 1, ps[j + 1] - 1)

\* C24: in the sequence the lexer returns, the tokens between two consecutive
\* significant tokens are nothing when the raw pass put no Newline between
\* them, and otherwise one Newline followed by the net number of Indent or
\* of Dedent tokens of the raw tokens between them
C24_NormalizedIndentation ==
    (pc = "lexed" /\ ~ub /\ Significant(token_queue) = Significant(raw_queue)) =>
       \A j \in 1..(Len(Positions(raw_queue)) - 1) :
          Between(token_queue, Positions(token_queue), j)
             = NormalizedRun(Between(raw_queue, Positions(raw_queue), j))

\* C28: no erase of OptimizeIntents is given a reversed range or a position
\* outside the sequence, whatever token sequence the raw pass produced
C28_OptimizeIntentsStaysInBounds == ~ub

\* C29: the significant tokens of the sequence the lexer returns are those of
\* the raw pass, in the same order
C29_SignificantTokensKept ==
    pc = "lexed" => Significant(token_queue) = Significant(raw_queue)

DigitsOnly(t) == t # <<>> /\ \A i \in 1..Len(t) : t[i] \in DigitChars

\* C26: a text that is one run of decimal digits of a value up to
\* 9223372036854775807 lexes to the one Number token whose value prints as
\* that run
C26_IntegerLiteralValue ==
    (/\ text \in {ProgIntMax, ProgIntMaxPlusOne, ProgLongMax} \cup WordInputs
     /\ DigitsOnly(text)
     /\ pc \notin {"line", "body"})
    => /\ pc # "lexer_error"
       /\ Len(raw_queue) = 1
       /\ Is(raw_queue[1], "Number")
       /\ StoI(text) = raw_queue[1].value

\* C25: a text that is one run [A-Za-z_][A-Za-z0-9_]* and no word of the
\* keyword table lexes to the one Id token holding the whole text
C25_IdentifierIsOneToken ==
    (/\ text # <<>>
     /\ text[1] \in IdStartChars
     /\ \A i \in 1..Len(text) : text[i] \in IdChars
     /\ SpecialWordOf(text) = "NotSpecial"
     /\ pc = "lexed")
    => raw_queue = <<ValTok("Id", text)>>

\* C27: in ProgClassOverVariable, which binds A to 1 and then defines the
\* class A, the closure binds A to the class once the definition has executed
C27_ClassDefinitionBinds ==
    (text = ProgClassOverVariable /\ pc \in {"run", "done"} /\ ip >= 2)
    => global_closure[<<"A">>].k = "Class"

\* C30: in ProgLocalClosure the method f(p) assigns v and g and prints them,
\* and the method h() prints g; with g = 1 at top level, x.f(2) prints 2 5 and
\* leaves the top-level closure with g = 1 and without v or p, and x.h(),
\* whose closure binds only self, stops with a runtime error at its read of
\* g; the local closure of a call binds self and the formal parameters only
C30_MethodClosureIsLocal ==
    /\ (text = ProgLocalClosure /\ pc \in {"run", "runtime_error"} /\ ip >= 2) =>
          /\ DOMAIN global_closure \subseteq {<<"A">>, <<"g">>, <<"x">>}
          /\ global_closure[<<"g">>] = Number(1)
          /\ \A ref \in DOMAIN heap :
                DOMAIN MixinLocalClosure(ref, <<<<"p">>>>, <<Number(2)>>) = {SELF, <<"p">>}
    /\ (text = ProgLocalClosure /\ Finished) =>
          /\ pc = "runtime_error"
          /\ ip = 5
          /\ out = <<"2"," ","5","\n","1","\n">>

C30_Witness ==
    /\ text = ProgLocalClosure
    /\ pc = "runtime_error"
    /\ Len(out) = 6
    /\ global_closure[<<"g">>] = Number(1)

====
